---- MODULE Spec2Model ----
(***************************************************************************)
(* A model of the spear RISC-V emulator (RV32I + Zicsr hart): the register *)
(* file, the CSR file, the decoders, the trap engine and the hart driver.  *)
(* Values are 32-bit `Address`es (the U32 kind) with the wrapping the      *)
(* source's operators have.                                                *)
(***************************************************************************)
EXTENDS Integers, Sequences, FiniteSets, TLC

VARIABLES
    registers,  \* rv32i::Extension.registers: the 32 slots of the array
    pc,         \* the program counter of the base extension
    mode,       \* Cpu.mode: "M", "S" or "U"
    csrs,       \* zicsr::Extension.csrs, on the CSR numbers the model uses
    mem,        \* the RAM device's words
    panicked,   \* the process aborted (panic!, unreachable!, todo!, expect)
    steps,      \* number of operations performed so far (bounded)
    ev          \* what the last operation was and what it returned

vars == <<registers, pc, mode, csrs, mem, panicked, steps, ev>>

-----------------------------------------------------------------------------
(* Bounds of the model.                                                     *)

\* Register-file operations per behaviour of SpecRegs.
MaxRegOps == 2

\* CSR-file operations per behaviour of SpecCsr.
MaxCsrOps == 2

\* Calls of Cpu::step per behaviour of Spec.
MaxSteps == 5

-----------------------------------------------------------------------------
(* Address arithmetic, src/src/address.rs (U32 kind).  An Address is kept   *)
(* as the set of the positions of its 1 bits, a subset of 0 .. 31, so that  *)
(* every 32-bit value is representable and the bitwise operators are the    *)
(* set operators.  A u64 is a subset of 0 .. 63.                            *)

XLEN == 32

Pow2(n) == 2 ^ n

\* Address::from(n: u32), for a literal n below 2^31.
Address(n) == {i \in 0 .. 30 : (n \div Pow2(i)) % 2 = 1}

RECURSIVE SumBits(_)
SumBits(s) ==
    IF s = {} THEN 0
    ELSE LET i == CHOOSE x \in s : TRUE IN Pow2(i) + SumBits(s \ {i})

\* u64::from(a), for the values below 2^31 that are used as numbers
\* (register indices, CSR numbers, shift amounts, causes).
u64_from(a) == SumBits(a)

\* to_self_kind: truncate (u64 -> u32) or zero extend to the U32 kind.
to_self_kind(x) == x \cap (0 .. XLEN - 1)

bitand(a, b) == to_self_kind(a) \cap to_self_kind(b)

\* A variant that keeps only the common bits.
bitor_mut(a, b) == to_self_kind(a) \cap to_self_kind(b)

bitor(a, b) == to_self_kind(a) \cup to_self_kind(b)

bitxor(a, b) == (to_self_kind(a) \ to_self_kind(b)) \cup (to_self_kind(b) \ to_self_kind(a))

\* ops::Not on the U32 kind.
not(a) == (0 .. XLEN - 1) \ a

\* !x on a u64.
not64(x) == (0 .. 63) \ x

\* ops::Shl<u32> and ops::Shr<u32> on the U32 kind.
shl(a, n) == {i + n : i \in a} \cap (0 .. XLEN - 1)

shr(a, n) == {i - n : i \in {j \in a : j >= n}}

\* << and >> on a u64.
shl64(x, n) == {i + n : i \in x} \cap (0 .. 63)

shr64(x, n) == {i - n : i \in {j \in x : j >= n}}

RECURSIVE AddCarry(_, _, _, _)
\* Bits i .. 31 of a + b + carry (ripple carry, the carry out of bit 31 dropped).
AddCarry(a, b, i, carry) ==
    IF i = XLEN THEN {}
    ELSE LET n == (IF i \in a THEN 1 ELSE 0) + (IF i \in b THEN 1 ELSE 0) + carry
         IN  (IF n % 2 = 1 THEN {i} ELSE {}) \cup AddCarry(a, b, i + 1, n \div 2)

\* A variant that adds without carries.
wrapping_add_mut(a, b) == (a \cup b) \ (a \cap b)

wrapping_add(a, b) == AddCarry(to_self_kind(a), to_self_kind(b), 0, 0)

\* a - b = a + !b + 1 (mod 2^32)
wrapping_sub(a, b) == AddCarry(to_self_kind(a), not(to_self_kind(b)), 0, 1)

\* Unsigned order of two U32 values: the highest bit in which they differ.
LessThan(a, b) ==
    LET d == bitxor(a, b)
    IN  d # {} /\ (CHOOSE i \in d : \A j \in d : j <= i) \in b

\* self & (1 << bit) != 0
get_bit(a, bit) == bit \in a

\* A variant that sets the bit whatever val is.
set_bit_mut(a, bit, val) == a \cup {bit}

\* self | (1 << bit), or self & !(1 << bit)
set_bit(a, bit, val) == IF val THEN a \cup {bit} ELSE a \ {bit}

\* (self << (bit_len - end) >> (bit_len - end)) >> start, over the regular
\* range [start, end).
get_bits(a, start, end) == {i - start : i \in a \cap (start .. end - 1)}

\* The assertion of set_bits: the u64 val, shifted up and down by
\* bit_len - (end - start) as a u64, is val again.
set_bits_fits(start, end, val) ==
    shr64(shl64(val, XLEN - (end - start)), XLEN - (end - start)) = val

\* set_bits over the regular range [start, end), when its assertion holds.
\* bitmask = !(!0 << (bit_len - end) >> (bit_len - end) >> start << start), and
\* (self & bitmask) | (val << start): val is not cut to the range.
set_bits(a, start, end, val) ==
    (a \ (start .. end - 1)) \cup to_self_kind(shl64(val, start))

-----------------------------------------------------------------------------
(* The register file, src/src/extensions/rv32i.rs.                          *)

RegIndex == 0 .. 31

read_register(regs, reg) ==
    IF reg = 0 THEN regs[0] ELSE regs[reg - 1]

\* A variant that also stores when reg is x0 (in the slot read_register(x0) reads).
write_register_mut(regs, reg, x) ==
    IF reg # 0 THEN [regs EXCEPT ![reg - 1] = x] ELSE [regs EXCEPT ![0] = x]

write_register(regs, reg, x) ==
    IF reg # 0 THEN [regs EXCEPT ![reg - 1] = x] ELSE regs

\* Extension::new_32bit
new_registers == [i \in 0 .. 31 |-> Address(0)]

-----------------------------------------------------------------------------
(* Privilege modes, src/src/cpu.rs.                                         *)

PrivilegeMode == {"U", "S", "M"}

\* A variant that gives User for every encoding.
from_bits_mut(bits) == "U"

\* from_bits; "unreachable" is the unreachable!() of the 0b10 arm.
from_bits(bits) ==
    CASE bits % 4 = 0 -> "U"
      [] bits % 4 = 1 -> "S"
      [] bits % 4 = 3 -> "M"
      [] OTHER        -> "unreachable"

\* A variant that encodes every mode as User.
to_bits_mut(m) == 0

to_bits(m) ==
    CASE m = "U" -> 0
      [] m = "S" -> 1
      [] m = "M" -> 3

can_access(self, other) ==
    \/ self = "M"
    \/ self = "S" /\ other \in {"S", "U"}
    \/ self = "U" /\ other = "U"

-----------------------------------------------------------------------------
(* Results and exceptions, src/src/trap.rs.  A Result is a record whose exc *)
(* is "Ok", the name of the Exception, or "panic" when the process aborts.  *)

Ok == [exc |-> "Ok"]

Panic == [exc |-> "panic"]

\* An Exception variant that carries a value, and one that carries none.
Exc(name, val) == [exc |-> name, val |-> val]

Fault(name) == [exc |-> name]

Interrupt(int) == [exc |-> "Interrupt", int |-> int]

IllegalInstruction(val) == Exc("IllegalInstruction", val)

-----------------------------------------------------------------------------
(* The CSR file, src/src/extensions/zicsr.rs and zicsr/registers.rs.        *)

USTATUS == 0
SSTATUS == 256
SIE == 260
STVEC == 261
SEPC == 321
SCAUSE == 322
STVAL == 323
SIP == 324
SATP == 384
MSTATUS == 768
MISA == 769
MEDELEG == 770
MIDELEG == 771
MIE == 772
MTVEC == 773
MEPC == 833
MCAUSE == 834
MTVAL == 835
MIP == 836
CYCLE == 3072
MHARTID == 3860

\* CSR numbers without a name in the source: bits 9:8 = 0b10 (0x200), and
\* read-only numbers (bits 11:10 = 0b11) of level 0b01 (0xD00) and 0b10 (0xE00).
CSR_H == 512
CSR_RO_S == 3328
CSR_RO_H == 3584

\* The slots of the 4096-entry array that the model keeps.
CsrIndex ==
    {USTATUS, SSTATUS, SIE, STVEC, SEPC, SCAUSE, STVAL, SIP, SATP, MSTATUS, MISA,
     MEDELEG, MIDELEG, MIE, MTVEC, MEPC, MCAUSE, MTVAL, MIP, CYCLE, MHARTID,
     CSR_H, CSR_RO_S, CSR_RO_H}

\* 0x80000003000de162 as a u64.
SSTATUS_MASK == {1, 5, 6, 8, 13, 14, 15, 16, 18, 19, 32, 33, 63}

\* readable_in: "true", "false", or "panic" when from_bits aborts.
readable_in(csr, m) ==
    LET x == from_bits((csr \div 256) % 4)
    IN  IF x = "unreachable" THEN "panic"
        ELSE IF can_access(m, x) THEN "true" ELSE "false"

\* A variant without the read-only check.
writeable_in_mut(csr, m) ==
    LET x == from_bits((csr \div 256) % 4)
    IN  IF x = "unreachable" THEN "panic"
        ELSE IF can_access(m, x) THEN "true" ELSE "false"

\* writeable_in: "true", "false", or "panic" when from_bits aborts.
writeable_in(csr, m) ==
    IF csr \div 1024 = 3 THEN "false"
    ELSE LET x == from_bits((csr \div 256) % 4)
         IN  IF x = "unreachable" THEN "panic"
             ELSE IF can_access(m, x) THEN "true" ELSE "false"

\* A variant that keeps sstatus in a cell of its own.
force_read_csr_mut(c, csr) ==
    CASE csr = SIE     -> bitand(c[MIE], c[MIDELEG])
      [] csr = SIP     -> bitand(c[MIP], c[MIDELEG])
      [] OTHER         -> c[csr]

force_read_csr(c, csr) ==
    CASE csr = SSTATUS -> bitand(c[MSTATUS], SSTATUS_MASK)
      [] csr = SIE     -> bitand(c[MIE], c[MIDELEG])
      [] csr = SIP     -> bitand(c[MIP], c[MIDELEG])
      [] OTHER         -> c[csr]

force_write_csr(c, csr, val) ==
    CASE csr = SSTATUS ->
            [c EXCEPT ![MSTATUS] = bitor(bitand(c[MSTATUS], not64(SSTATUS_MASK)),
                                         bitand(val, SSTATUS_MASK))]
      [] csr = SIE ->
            LET mideleg == c[MIDELEG]
            IN  [c EXCEPT ![MIE] = bitor(bitand(c[MIE], not(mideleg)),
                                         bitand(val, mideleg))]
      [] csr = SIP ->
            LET mask == bitand(c[MIDELEG], shl(Address(1), 1))
            IN  [c EXCEPT ![MIP] = bitor(bitand(c[MIP], not(mask)), bitand(val, mask))]
      [] OTHER -> [c EXCEPT ![csr] = to_self_kind(val)]

\* write_csr: the new file and Ok, an exception, or "panic".
write_csr(c, csr, val, m) ==
    LET w == writeable_in(csr, m)
    IN  IF w = "panic" THEN [csrs |-> c, res |-> Panic]
        ELSE IF w = "false" THEN [csrs |-> c, res |-> IllegalInstruction({})]
        ELSE IF csr = SATP /\ m = "S" /\ get_bit(force_read_csr(c, MSTATUS), 20)
             THEN [csrs |-> c, res |-> IllegalInstruction({})]
        ELSE [csrs |-> force_write_csr(c, csr, val), res |-> Ok]

\* A variant without the TVM trap of satp.
read_csr_mut(c, csr, m) ==
    LET r == readable_in(csr, m)
    IN  IF r = "panic" THEN [out |-> {}, res |-> Panic]
        ELSE IF r = "false" THEN [out |-> {}, res |-> IllegalInstruction({})]
        ELSE [out |-> force_read_csr(c, csr), res |-> Ok]

\* read_csr: the value read and Ok, an exception, or "panic".
read_csr(c, csr, m) ==
    LET r == readable_in(csr, m)
    IN  IF r = "panic" THEN [out |-> {}, res |-> Panic]
        ELSE IF r = "false" THEN [out |-> {}, res |-> IllegalInstruction({})]
        ELSE IF csr = SATP /\ m = "S" /\ get_bit(force_read_csr(c, MSTATUS), 20)
             THEN [out |-> {}, res |-> IllegalInstruction({})]
        ELSE [out |-> force_read_csr(c, csr), res |-> Ok]

\* The misa value of Extension::new_32bit.
misa == {30, 20, 18, 8}

\* Extension::new_32bit
new_csrs == force_write_csr([n \in CsrIndex |-> Address(0)], MISA, misa)

-----------------------------------------------------------------------------
(* The decoders, src/src/extensions/rv32i/parse.rs and zicsr.rs (parse).    *)
(* A word is an Address; register numbers, opcodes and functs are numbers;  *)
(* the `val` of an instruction type is the u32 the parser builds.           *)

\* ((x >> lo) & (2^n - 1)) << to
Field(x, lo, n, to) == {i - lo + to : i \in x \cap (lo .. lo + n - 1)}

None == [op |-> "None"]

from_opcode(opcode) ==
    CASE opcode = 51 -> "R"
      [] opcode \in {3, 15, 19, 103, 115} -> "I"
      [] opcode = 35 -> "S"
      [] opcode = 99 -> "B"
      [] opcode \in {23, 55} -> "U"
      [] opcode = 111 -> "J"
      [] OTHER -> "None"

RType_parse(inst) ==
    [funct3 |-> u64_from(Field(inst, 12, 3, 0)),
     funct7 |-> u64_from(Field(inst, 25, 7, 0)),
     ty |-> [rd  |-> u64_from(Field(inst, 7, 5, 0)),
             rs1 |-> u64_from(Field(inst, 15, 5, 0)),
             rs2 |-> u64_from(Field(inst, 20, 5, 0))]]

IType_parse(inst) ==
    [funct3 |-> u64_from(Field(inst, 12, 3, 0)),
     ty |-> [val |-> Field(inst, 20, 12, 0),
             rd  |-> u64_from(Field(inst, 7, 5, 0)),
             rs  |-> u64_from(Field(inst, 15, 5, 0))]]

SType_parse(inst) ==
    [funct3 |-> u64_from(Field(inst, 12, 3, 0)),
     ty |-> [val |-> Field(inst, 25, 7, 5) \cup Field(inst, 7, 5, 0),
             rs1 |-> u64_from(Field(inst, 15, 5, 0)),
             rs2 |-> u64_from(Field(inst, 20, 5, 0))]]

BType_parse(inst) ==
    [funct3 |-> u64_from(Field(inst, 12, 3, 0)),
     ty |-> [val |-> Field(inst, 31, 1, 12) \cup Field(inst, 7, 1, 11)
                       \cup Field(inst, 25, 6, 5) \cup Field(inst, 8, 4, 1),
             rs1 |-> u64_from(Field(inst, 15, 5, 0)),
             rs2 |-> u64_from(Field(inst, 20, 5, 0))]]

UType_parse(inst) ==
    [val |-> Field(inst, 12, 20, 12), rd |-> u64_from(Field(inst, 7, 5, 0))]

JType_parse(inst) ==
    [val |-> Field(inst, 31, 1, 20) \cup Field(inst, 12, 8, 12)
               \cup Field(inst, 20, 1, 11) \cup Field(inst, 21, 10, 1),
     rd |-> u64_from(Field(inst, 7, 5, 0))]

get_r_type(ty, funct3, funct7) ==
    LET f == <<funct3, funct7>>
        op == CASE f = <<0, 0>>  -> "ADD"
                [] f = <<0, 32>> -> "SUB"
                [] f = <<1, 0>>  -> "SLL"
                [] f = <<2, 0>>  -> "SLT"
                [] f = <<3, 0>>  -> "SLTU"
                [] f = <<4, 0>>  -> "XOR"
                [] f = <<5, 0>>  -> "SRL"
                [] f = <<5, 32>> -> "SRA"
                [] f = <<6, 32>> -> "OR"
                [] f = <<7, 32>> -> "AND"
                [] OTHER -> "None"
    IN  IF op = "None" THEN None ELSE [op |-> op, ty |-> ty]

get_i_type(ty, opcode, funct3) ==
    LET f == <<opcode, funct3>>
        op == CASE f = <<3, 0>> -> "LB"
                [] f = <<3, 1>> -> "LH"
                [] f = <<3, 2>> -> "LW"
                [] f = <<3, 4>> -> "LBU"
                [] f = <<3, 5>> -> "LHU"
                [] f = <<15, 0>> -> "FENCE"
                [] f = <<19, 0>> -> "ADDI"
                [] f = <<19, 2>> -> "SLTI"
                [] f = <<19, 3>> -> "SLTIU"
                [] f = <<19, 4>> -> "XORI"
                [] f = <<19, 6>> -> "ORI"
                [] f = <<19, 7>> -> "ANDI"
                [] f = <<19, 1>> -> "SLLI"
                [] f = <<19, 5>> -> IF 10 \notin ty.val THEN "SRLI" ELSE "SRAI"
                [] f = <<103, 0>> -> "JALR"
                [] f = <<115, 0>> /\ ty.val = Address(0) -> "ECALL"
                [] f = <<115, 0>> /\ ty.val = Address(1) -> "EBREAK"
                [] OTHER -> "None"
    IN  IF op = "None" THEN None
        ELSE IF op = "SRAI" THEN [op |-> op, ty |-> [ty EXCEPT !.val = @ \ {10}]]
        ELSE [op |-> op, ty |-> ty]

get_s_type(ty, funct3) ==
    CASE funct3 = 0 -> [op |-> "SB", ty |-> ty]
      [] funct3 = 1 -> [op |-> "SH", ty |-> ty]
      [] funct3 = 2 -> [op |-> "SW", ty |-> ty]
      [] OTHER -> None

get_b_type(ty, funct3) ==
    CASE funct3 = 0 -> [op |-> "BEQ", ty |-> ty]
      [] funct3 = 1 -> [op |-> "BNE", ty |-> ty]
      [] funct3 = 4 -> [op |-> "BLT", ty |-> ty]
      [] funct3 = 5 -> [op |-> "BGE", ty |-> ty]
      [] funct3 = 6 -> [op |-> "BLTU", ty |-> ty]
      [] funct3 = 7 -> [op |-> "BGEU", ty |-> ty]
      [] OTHER -> None

get_u_type(ty, opcode) ==
    CASE opcode = 55 -> [op |-> "LUI", ty |-> ty]
      [] opcode = 23 -> [op |-> "AUIPC", ty |-> ty]
      [] OTHER -> None

get_j_type(ty, opcode) ==
    IF opcode = 111 THEN [op |-> "JAL", ty |-> ty] ELSE None

\* rv32i::parse::parse
rv32i_parse(inst) ==
    LET opcode == u64_from(Field(inst, 0, 7, 0))
        kind == from_opcode(opcode)
    IN  CASE kind = "R" -> LET p == RType_parse(inst)
                           IN  get_r_type(p.ty, p.funct3, p.funct7)
          [] kind = "I" -> LET p == IType_parse(inst)
                           IN  get_i_type(p.ty, opcode, p.funct3)
          [] kind = "S" -> LET p == SType_parse(inst) IN get_s_type(p.ty, p.funct3)
          [] kind = "B" -> LET p == BType_parse(inst) IN get_b_type(p.ty, p.funct3)
          [] kind = "U" -> get_u_type(UType_parse(inst), opcode)
          [] kind = "J" -> get_j_type(JType_parse(inst), opcode)
          [] OTHER -> None

\* zicsr::parse
zicsr_parse(inst) ==
    IF u64_from(Field(inst, 0, 7, 0)) # 115 THEN None
    ELSE LET i == IType_parse(inst)
             r == RType_parse(inst)
         IN  CASE i.funct3 = 0 ->
                    IF r.funct3 # 0 THEN None
                    ELSE IF r.ty.rs2 = 2 THEN
                        CASE r.funct7 = 0  -> [op |-> "URET", ty |-> r.ty]
                          [] r.funct7 = 8  -> [op |-> "SRET", ty |-> r.ty]
                          [] r.funct7 = 24 -> [op |-> "MRET", ty |-> r.ty]
                          [] OTHER -> None
                    ELSE IF r.ty.rs2 = 5 /\ r.funct7 = 8 THEN [op |-> "WFI", ty |-> r.ty]
                    ELSE IF r.funct7 = 9 THEN [op |-> "SFENCE_VMA", ty |-> r.ty]
                    ELSE None
               [] i.funct3 = 1 -> [op |-> "CSRRW", ty |-> i.ty]
               [] i.funct3 = 2 -> [op |-> "CSRRS", ty |-> i.ty]
               [] i.funct3 = 3 -> [op |-> "CSRRC", ty |-> i.ty]
               [] i.funct3 = 5 -> [op |-> "CSRRWI", ty |-> i.ty]
               [] i.funct3 = 6 -> [op |-> "CSRRSI", ty |-> i.ty]
               [] i.funct3 = 7 -> [op |-> "CSRRCI", ty |-> i.ty]
               [] OTHER -> None

\* The decoding of Cpu::parse_and_exec: the base decoder first, then Zicsr;
\* None is the IllegalInstruction(inst) outcome.
decode(inst) ==
    LET or_else(i) == IF i # None THEN i ELSE zicsr_parse(inst)
    IN  or_else(rv32i_parse(inst))

-----------------------------------------------------------------------------
(* The memory bus with one RAM device at base 0, src/src/memory.rs.  The     *)
(* hart is the record h of the Cpu's fields: registers and pc (the base     *)
(* extension), mode, csrs (the Zicsr extension) and mem (the RAM device).   *)

\* The word addresses of the RAM device.
Cells == {0, 4, 8, 12}

\* The device that contains addr, and the range check of RamDevice::load.
InRam(addr, len) ==
    /\ addr \subseteq 0 .. 5
    /\ u64_from(addr) + len <= 4 * Cardinality(Cells)

\* Memory::read::<T> for a T of len bytes (1, 2 or 4), little endian.
mem_read(m, addr, len) ==
    IF addr \cap (0 .. 1) \cap {i \in 0 .. 1 : Pow2(i) < len} # {}
    THEN [res |-> Exc("LoadAddressMisaligned", addr), out |-> {}]
    ELSE IF ~InRam(addr, len) THEN [res |-> Fault("LoadAccessFault"), out |-> {}]
    ELSE LET n == u64_from(addr)
         IN  [res |-> Ok, out |-> Field(m[n - (n % 4)], 8 * (n % 4), 8 * len, 0)]

\* Memory::write::<T> for a T of len bytes.
mem_write(m, addr, len, item) ==
    IF addr \cap (0 .. 1) \cap {i \in 0 .. 1 : Pow2(i) < len} # {}
    THEN [res |-> Exc("StoreAddressMisaligned", addr), mem |-> m]
    ELSE IF ~InRam(addr, len) THEN [res |-> Fault("StoreAccessFault"), mem |-> m]
    ELSE LET n == u64_from(addr)
             w == n - (n % 4)
             at == 8 * (n % 4)
         IN  [res |-> Ok,
              mem |-> [m EXCEPT ![w] = (@ \ (at .. at + 8 * len - 1))
                                         \cup Field(item, 0, 8 * len, at)]]

-----------------------------------------------------------------------------
(* The device bus, src/src/device.rs and src/src/device/ram.rs.  A bus is   *)
(* the record [devices, target_endian]: the devices in the iteration order  *)
(* of the map, each [base, ram] with ram the bytes of a RamDevice, and the  *)
(* byte order of the host the emulator was built for.  A T of len bytes is  *)
(* a set of bit positions in 0 .. 8 * len - 1, a byte one in 0 .. 7.        *)

\* RamDevice::new(size) registered at base by add_device.
RamDevice(base, size) == [base |-> base, ram |-> [k \in 1 .. size |-> {}]]

swap_bytes(v, len) == {8 * (len - 1 - (i \div 8)) + (i % 8) : i \in v}

\* MemoryPod::process_read: to_le.
process_read(v, len, endian) == IF endian = "little" THEN v ELSE swap_bytes(v, len)

\* MemoryPod::process_write: from_le.
process_write(v, len, endian) == IF endian = "little" THEN v ELSE swap_bytes(v, len)

\* bytemuck::bytes_of: the bytes of the item in the order of the host.
bytes_of(v, len, endian) ==
    [k \in 1 .. len |->
        LET at == IF endian = "little" THEN k - 1 ELSE len - k
        IN  {i - 8 * at : i \in v \cap (8 * at .. 8 * at + 7)}]

\* The item that bytes_of_mut(&mut item) holds once buf is filled.
item_of(buf, len, endian) ==
    UNION {{i + 8 * (IF endian = "little" THEN k - 1 ELSE len - k) : i \in buf[k]}
           : k \in 1 .. len}

\* DeviceBus::device_for and device_for_mut: the index of the first device
\* whose [base, base + size) contains addr, 0 for None.
device_for(devices, addr) ==
    LET found == {k \in DOMAIN devices :
                     /\ devices[k].base <= addr
                     /\ addr < devices[k].base + Len(devices[k].ram)}
    IN  IF found = {} THEN 0 ELSE CHOOSE k \in found : \A j \in found : k <= j

\* RamDevice::load
ram_load(ram, off, len) ==
    IF off + len <= Len(ram)
    THEN [res |-> Ok, buf |-> SubSeq(ram, off + 1, off + len)]
    ELSE [res |-> Fault("LoadAccessFault"), buf |-> [k \in 1 .. len |-> {}]]

\* A variant that copies the first byte of buf only.
ram_write_mut(ram, off, buf) ==
    IF off + Len(buf) <= Len(ram)
    THEN [res |-> Ok, ram |-> [ram EXCEPT ![off + 1] = buf[1]]]
    ELSE [res |-> Fault("StoreAccessFault"), ram |-> ram]

\* RamDevice::write
ram_write(ram, off, buf) ==
    IF off + Len(buf) <= Len(ram)
    THEN [res |-> Ok,
          ram |-> [k \in DOMAIN ram |->
                      IF k \in off + 1 .. off + Len(buf) THEN buf[k - off] ELSE ram[k]]]
    ELSE [res |-> Fault("StoreAccessFault"), ram |-> ram]

\* A variant that looks for the device before it checks the alignment.
bus_read_mut(bus, addr, len) ==
    LET n == u64_from(addr)
        k == device_for(bus.devices, n)
        loaded(l) ==
            IF l.res # Ok THEN [res |-> l.res, out |-> {}]
            ELSE [res |-> Ok,
                  out |-> process_read(item_of(l.buf, len, bus.target_endian), len,
                                       bus.target_endian)]
    IN  IF k = 0 THEN [res |-> Fault("LoadAccessFault"), out |-> {}]
        ELSE IF n % len # 0 THEN [res |-> Exc("LoadAddressMisaligned", addr), out |-> {}]
        ELSE loaded(ram_load(bus.devices[k].ram, n - bus.devices[k].base, len))

\* DeviceBus::read::<T> for a T of len bytes; align_of::<T>() is len.
bus_read(bus, addr, len) ==
    LET n == u64_from(addr)
        k == device_for(bus.devices, n)
        loaded(l) ==
            IF l.res # Ok THEN [res |-> l.res, out |-> {}]
            ELSE [res |-> Ok,
                  out |-> process_read(item_of(l.buf, len, bus.target_endian), len,
                                       bus.target_endian)]
    IN  IF n % len # 0 THEN [res |-> Exc("LoadAddressMisaligned", addr), out |-> {}]
        ELSE IF k = 0 THEN [res |-> Fault("LoadAccessFault"), out |-> {}]
        ELSE loaded(ram_load(bus.devices[k].ram, n - bus.devices[k].base, len))

\* DeviceBus::write::<T>
bus_write(bus, addr, len, item) ==
    LET n == u64_from(addr)
        k == device_for(bus.devices, n)
        written(w) ==
            [res |-> w.res, bus |-> [bus EXCEPT !.devices[k].ram = w.ram]]
    IN  IF n % len # 0 THEN [res |-> Exc("StoreAddressMisaligned", addr), bus |-> bus]
        ELSE IF k = 0 THEN [res |-> Fault("StoreAccessFault"), bus |-> bus]
        ELSE written(ram_write(bus.devices[k].ram, n - bus.devices[k].base,
                               bytes_of(process_write(item, len, bus.target_endian),
                                        len, bus.target_endian)))

-----------------------------------------------------------------------------
(* The memory management unit, src/src/mmu.rs.  The PTEs are read from the  *)
(* RAM of the hart; a table address and a PPN taken from a PTE are u64.     *)

PAGE_SHIFT == 12

PPN_SHIFT == 10

\* The positions of the PTE bits whose masks are BIT_V .. BIT_D.
BIT_V == 0

BIT_R == 1

BIT_W == 2

BIT_X == 3

BIT_U == 4

BIT_A == 6

BIT_D == 7

RECURSIVE AddCarry64(_, _, _, _)
\* wrapping_add of the U64 kind.
AddCarry64(a, b, i, carry) ==
    IF i = 64 THEN {}
    ELSE LET n == (IF i \in a THEN 1 ELSE 0) + (IF i \in b THEN 1 ELSE 0) + carry
         IN  (IF n % 2 = 1 THEN {i} ELSE {}) \cup AddCarry64(a, b, i + 1, n \div 2)

\* Entry::parse: None, a Leaf or a Branch.
Entry_parse(x) ==
    LET ppn == shl64(shr64(x, PPN_SHIFT), PAGE_SHIFT)
    IN  IF BIT_V \notin x \/ (BIT_R \notin x /\ BIT_W \in x) THEN None
        ELSE IF BIT_R \in x \/ BIT_X \in x THEN [op |-> "Leaf", ppn |-> ppn, entry |-> x]
        ELSE [op |-> "Branch", ppn |-> ppn]

\* PagingMode::vpn
vpn(addr, idx) ==
    IF idx = 0 THEN shr(addr, PAGE_SHIFT) \cap (0 .. 9)
    ELSE shr(shr(addr, PAGE_SHIFT), 10) \cap (0 .. 9)

\* PagingMode::read_entry; the sum is a u32 for the table of satp (wide =
\* FALSE) and a u64 for the table of a Branch.
read_entry(m, table, v, wide) ==
    LET read(r) == IF r.res # Ok THEN [res |-> r.res, entry |-> None]
                   ELSE [res |-> Ok, entry |-> Entry_parse(r.out)]
    IN  read(mem_read(m, IF wide THEN AddCarry64(table, shl(v, 2), 0, 0)
                         ELSE wrapping_add(table, shl(v, 2)), 4))

\* PagingMode::offset_of
offset_of(addr, lvl) == IF lvl = 0 THEN addr \cap (0 .. 9) ELSE addr \cap (0 .. 21)

\* decode_satp for xlen = 32: None, or the table of Sv32.
decode_satp(satp, prv) ==
    IF prv = "M" THEN None
    ELSE IF 31 \notin satp THEN None
    ELSE [op |-> "Sv32", table |-> shl(bitand(satp, 0 .. 21), PAGE_SHIFT)]

\* The value of `allowed` of Mmu::translate for a Leaf.
leaf_allowed(entry, access, prv, mstatus) ==
    LET rwx == \/ access = "Read" /\ BIT_R \in entry
               \/ access = "Write" /\ BIT_W \in entry
               \/ access = "Fetch" /\ BIT_X \in entry
               \/ access = "Read" /\ BIT_R \notin entry /\ BIT_X \in entry
                    /\ get_bit(mstatus, 19)
    IN  /\ rwx
        /\ ~(BIT_U \in entry /\ prv = "S" /\ (access = "Fetch" \/ ~get_bit(mstatus, 18)))
        /\ ~(prv = "U" /\ BIT_U \notin entry)
        /\ ~((BIT_A \in entry \/ access = "Write") /\ BIT_D \notin entry)

\* Mmu::translate: Ok and the physical address, the page fault of the access
\* type, the exception of the bus, or the panic of from_bits; reads counts
\* the calls of read_entry.
translate(h, addr, access) ==
    LET error == Exc(CASE access = "Read" -> "LoadPageFault"
                       [] access = "Write" -> "StorePageFault"
                       [] access = "Fetch" -> "InstructionPageFault", addr)
        mstatus == force_read_csr(h.csrs, MSTATUS)
        prv == IF access # "Fetch" /\ get_bit(mstatus, 17)
               THEN from_bits(u64_from(get_bits(mstatus, 11, 13)))
               ELSE h.mode
        leaf(pte, lvl, n) ==
            IF ~leaf_allowed(pte.entry, access, prv, mstatus)
            THEN [res |-> error, out |-> {}, reads |-> n]
            ELSE [res |-> Ok, out |-> AddCarry64(pte.ppn, offset_of(addr, lvl), 0, 0),
                  reads |-> n]
        level0(e) ==
            IF e.res # Ok THEN [res |-> e.res, out |-> {}, reads |-> 2]
            ELSE IF e.entry = None \/ e.entry.op = "Branch"
            THEN [res |-> error, out |-> {}, reads |-> 2]
            ELSE leaf(e.entry, 0, 2)
        level1(e) ==
            IF e.res # Ok THEN [res |-> e.res, out |-> {}, reads |-> 1]
            ELSE IF e.entry = None THEN [res |-> error, out |-> {}, reads |-> 1]
            ELSE IF e.entry.op = "Branch"
            THEN level0(read_entry(h.mem, e.entry.ppn, vpn(addr, 0), TRUE))
            ELSE leaf(e.entry, 1, 1)
        walk(info) ==
            IF info = None THEN [res |-> Ok, out |-> addr, reads |-> 0]
            ELSE level1(read_entry(h.mem, info.table, vpn(addr, 1), FALSE))
    IN  IF prv = "unreachable" THEN [res |-> Panic, out |-> {}, reads |-> 0]
        ELSE walk(decode_satp(force_read_csr(h.csrs, SATP), prv))

-----------------------------------------------------------------------------
(* The trap engine, src/src/trap.rs.                                        *)

\* Interrupt::cause
int_cause(int) ==
    CASE int = "UserSoftwareInterrupt" -> 0
      [] int = "SupervisorSoftwareInterrupt" -> 1
      [] int = "MachineSoftwareInterrupt" -> 3
      [] int = "UserTimerInterrupt" -> 4
      [] int = "SupervisorTimerInterrupt" -> 5
      [] int = "MachineTimerInterrupt" -> 7
      [] int = "UserExternalInterrupt" -> 8
      [] int = "SupervisorExternalInterrupt" -> 9
      [] int = "MachineExternalInterrupt" -> 11

\* Exception::cause
cause(e) ==
    CASE e.exc = "InstructionAddressMisaligned" -> 0
      [] e.exc = "InstructionAccessFault" -> 1
      [] e.exc = "IllegalInstruction" -> 2
      [] e.exc = "Breakpoint" -> 3
      [] e.exc = "LoadAddressMisaligned" -> 4
      [] e.exc = "LoadAccessFault" -> 5
      [] e.exc = "StoreAddressMisaligned" -> 6
      [] e.exc = "StoreAccessFault" -> 7
      [] e.exc = "UserEcall" -> 8
      [] e.exc = "SupervisorEcall" -> 9
      [] e.exc = "MachineEcall" -> 11
      [] e.exc = "InstructionPageFault" -> 12
      [] e.exc = "LoadPageFault" -> 13
      [] e.exc = "StorePageFault" -> 15
      [] e.exc = "Interrupt" -> int_cause(e.int)

\* A variant that gives the pc for every exception.
trap_value_mut(e, pc_) == pc_

\* Exception::trap_value
trap_value(e, pc_) ==
    CASE e.exc \in {"InstructionAccessFault", "Breakpoint", "LoadAccessFault",
                    "StoreAccessFault"} -> pc_
      [] e.exc \in {"InstructionPageFault", "InstructionAddressMisaligned",
                    "LoadAddressMisaligned", "StoreAddressMisaligned",
                    "LoadPageFault", "StorePageFault"} -> e.val
      [] e.exc = "IllegalInstruction" -> e.val
      [] OTHER -> Address(0)

\* A variant that delegates whatever the mode the trap is taken in.
handled_in_S_mut(h, e) ==
    get_bit(force_read_csr(h.csrs, IF e.exc = "Interrupt" THEN MIDELEG ELSE MEDELEG),
            cause(e))

\* The condition of take_trap for handling the trap in S-mode.
handled_in_S(h, e) ==
    /\ to_bits(h.mode) <= to_bits("S")
    /\ get_bit(force_read_csr(h.csrs, IF e.exc = "Interrupt" THEN MIDELEG ELSE MEDELEG),
               cause(e))

\* Exception::take_trap
take_trap(h, e) ==
    LET tval == trap_value(e, h.pc)
        prv_mode == h.mode
        int_bit == IF e.exc = "Interrupt" THEN shl(Address(1), XLEN - 1) ELSE Address(0)
        xcause == bitor(Address(cause(e)), int_bit)
        to_S == handled_in_S(h, e)
        tvec == force_read_csr(h.csrs, IF to_S THEN STVEC ELSE MTVEC)
        trap_pc == shl(shr(tvec, 1), 1)
        vector == IF get_bit(tvec, 0) THEN Address(4 * cause(e)) ELSE Address(0)
        c1 == force_write_csr(h.csrs, IF to_S THEN SEPC ELSE MEPC, h.pc)
        c2 == force_write_csr(c1, IF to_S THEN SCAUSE ELSE MCAUSE, xcause)
        c3 == force_write_csr(c2, IF to_S THEN STVAL ELSE MTVAL, tval)
        status == force_read_csr(c3, MSTATUS)
        sstatus == set_bit(set_bit(set_bit(status, 5, get_bit(status, 1)), 1, FALSE),
                           8, prv_mode = "S")
        mstatus == set_bits(set_bit(set_bit(status, 7, get_bit(status, 3)), 3, FALSE),
                            11, 13, Address(to_bits(prv_mode)))
    IN  [h EXCEPT !.mode = IF to_S THEN "S" ELSE "M",
                  !.pc = wrapping_add(trap_pc, vector),
                  !.csrs = force_write_csr(c3, MSTATUS,
                                           IF to_S THEN sstatus ELSE mstatus)]

-----------------------------------------------------------------------------
(* The interrupt selector, src/src/cpu.rs.                                  *)

\* A variant that leaves out the global enable of the mode.
check_pending_interrupt_mut(h) ==
    IF bitand(force_read_csr(h.csrs, MIE), force_read_csr(h.csrs, MIP)) = Address(0)
    THEN None
    ELSE Interrupt("MachineSoftwareInterrupt")

\* Cpu::check_pending_interrupt: an Interrupt exception or None.
check_pending_interrupt(h) ==
    LET enabled ==
            CASE h.mode = "M" -> get_bit(force_read_csr(h.csrs, MSTATUS), 3)
              [] h.mode = "S" -> get_bit(force_read_csr(h.csrs, SSTATUS), 1)
              [] OTHER -> TRUE
        pending == bitand(force_read_csr(h.csrs, MIE), force_read_csr(h.csrs, MIP))
    IN  IF ~enabled THEN None
        ELSE IF get_bit(pending, 11) THEN Interrupt("MachineExternalInterrupt")
        ELSE IF get_bit(pending, 7) THEN Interrupt("MachineTimerInterrupt")
        ELSE IF get_bit(pending, 3) THEN Interrupt("MachineSoftwareInterrupt")
        ELSE IF get_bit(pending, 9) THEN Interrupt("SupervisorExternalInterrupt")
        ELSE IF get_bit(pending, 7) THEN Interrupt("SupervisorTimerInterrupt")
        ELSE IF get_bit(pending, 1) THEN Interrupt("SupervisorSoftwareInterrupt")
        ELSE None

-----------------------------------------------------------------------------
(* The executors, src/src/extensions/rv32i/exec.rs and zicsr.rs (exec), and *)
(* the immediates of src/src/instruction.rs.  An executor gives the hart    *)
(* after the instruction, its Result and the Continuation.                  *)

Done(h, cont) == [h |-> h, res |-> Ok, cont |-> cont]

Raise(h, e) == [h |-> h, res |-> e, cont |-> "None"]

\* sign_imm: (val << (32 - n)) >> (32 - n) on an i32.
sign_imm(val, n) ==
    (val \cap (0 .. n - 1)) \cup (IF n - 1 \in val THEN n .. XLEN - 1 ELSE {})

\* a.signed() < b.signed()
signed_lt(a, b) == IF (31 \in a) # (31 \in b) THEN 31 \in a ELSE LessThan(a, b)

\* (a.signed() >> n).unsigned()
signed_shr(a, n) == shr(a, n) \cup (IF 31 \in a THEN (XLEN - n) .. XLEN - 1 ELSE {})

bool(b) == IF b THEN Address(1) ELSE Address(0)

\* The closures of the register and immediate instructions.
alu(op, a, b) ==
    CASE op \in {"ADD", "ADDI"} -> wrapping_add(a, b)
      [] op = "SUB" -> wrapping_sub(a, b)
      [] op \in {"SLL", "SLLI"} -> shl(a, u64_from(bitand(b, Address(31))))
      [] op \in {"SLT", "SLTI"} -> bool(signed_lt(a, b))
      [] op \in {"SLTU", "SLTIU"} -> bool(LessThan(a, b))
      [] op \in {"XOR", "XORI"} -> bitxor(a, b)
      [] op \in {"SRL", "SRLI"} -> shr(a, u64_from(bitand(b, Address(31))))
      [] op \in {"SRA", "SRAI"} -> signed_shr(a, u64_from(bitand(b, Address(31))))
      [] op \in {"OR", "ORI"} -> bitor(a, b)
      [] op \in {"AND", "ANDI"} -> bitand(a, b)

\* The Address of InstructionAddressMisaligned when a jump raises it.
misaligned_target(target) == target

\* JAL, JALR and a taken branch: the alignment check, set_pc, and the link
\* register when there is one (link = FALSE for a branch).  exec.rs names
\* the variant without the Address that trap.rs gives it: misaligned_target.
jump_mut(h, target, link, rd) ==
    LET linked == [h EXCEPT !.registers =
                      IF link THEN write_register(@, rd, wrapping_add(h.pc, Address(4)))
                      ELSE @]
    IN  IF bitand(target, Address(3)) # Address(0)
        THEN Raise(linked, Exc("InstructionAddressMisaligned", misaligned_target(target)))
        ELSE Done([linked EXCEPT !.pc = target], "Jump")

jump(h, target, link, rd) ==
    IF bitand(target, Address(3)) # Address(0)
    THEN Raise(h, Exc("InstructionAddressMisaligned", misaligned_target(target)))
    ELSE Done([h EXCEPT !.pc = target,
                        !.registers = IF link
                                      THEN write_register(@, rd, wrapping_add(h.pc, Address(4)))
                                      ELSE @],
              "Jump")

\* load_inst::<T> for a T of len bytes; sext tells the conversion.
load_inst(h, ty, len, sext) ==
    LET r == mem_read(h.mem, wrapping_add(read_register(h.registers, ty.rs),
                                          sign_imm(ty.val, 12)), len)
    IN  IF r.res # Ok THEN Raise(h, r.res)
        ELSE Done([h EXCEPT !.registers =
                       write_register(@, ty.rd,
                                      IF sext THEN sign_imm(r.out, 8 * len) ELSE r.out)],
                  "Next")

store_inst(h, ty, len) ==
    LET w == mem_write(h.mem, wrapping_add(read_register(h.registers, ty.rs1),
                                           sign_imm(ty.val, 12)),
                       len, read_register(h.registers, ty.rs2))
    IN  IF w.res # Ok THEN Raise(h, w.res) ELSE Done([h EXCEPT !.mem = w.mem], "Next")

\* rv32i::exec::exec
rv32i_exec(i, h) ==
    LET op == i.op
        ty == i.ty
        x(r) == read_register(h.registers, r)
        write(rd, v) == Done([h EXCEPT !.registers = write_register(@, rd, v)], "Next")
    IN  CASE op = "LUI" -> write(ty.rd, ty.val)
          [] op = "AUIPC" -> write(ty.rd, wrapping_add(h.pc, ty.val))
          [] op = "JAL" -> jump(h, wrapping_add(h.pc, sign_imm(ty.val, 21)), TRUE, ty.rd)
          [] op = "JALR" ->
                jump(h, bitand(wrapping_add(x(ty.rs), sign_imm(ty.val, 12)),
                               not(Address(1))), TRUE, ty.rd)
          [] op \in {"BEQ", "BNE", "BLT", "BGE", "BLTU", "BGEU"} ->
                LET a == x(ty.rs1)
                    b == x(ty.rs2)
                    cond == CASE op = "BEQ" -> a = b
                              [] op = "BNE" -> a # b
                              [] op = "BLT" -> signed_lt(a, b)
                              [] op = "BGE" -> ~signed_lt(a, b)
                              [] op = "BLTU" -> LessThan(a, b)
                              [] op = "BGEU" -> ~LessThan(a, b)
                IN  IF cond
                    THEN jump(h, wrapping_add(h.pc, sign_imm(ty.val, 13)), FALSE, 0)
                    ELSE Done(h, "Next")
          [] op = "LB" -> load_inst(h, ty, 1, TRUE)
          [] op = "LBU" -> load_inst(h, ty, 1, FALSE)
          [] op = "LH" -> load_inst(h, ty, 2, TRUE)
          [] op = "LHU" -> load_inst(h, ty, 2, FALSE)
          [] op = "LW" -> load_inst(h, ty, 4, FALSE)
          [] op = "SB" -> store_inst(h, ty, 1)
          [] op = "SH" -> store_inst(h, ty, 2)
          [] op = "SW" -> store_inst(h, ty, 4)
          [] op \in {"ADDI", "SLTI", "SLTIU", "XORI", "ORI", "ANDI"} ->
                write(ty.rd, alu(op, x(ty.rs), sign_imm(ty.val, 12)))
          [] op \in {"SLLI", "SRLI", "SRAI"} ->
                \* verify_shamt on shamt = val & 0x3F
                IF u64_from(bitand(ty.val, Address(63))) >= XLEN
                THEN Raise(h, IllegalInstruction({}))
                ELSE write(ty.rd, alu(op, x(ty.rs), bitand(ty.val, Address(63))))
          [] op \in {"ADD", "SUB", "SLL", "SLT", "SLTU", "XOR", "SRL", "SRA", "OR", "AND"} ->
                write(ty.rd, alu(op, x(ty.rs1), x(ty.rs2)))
          [] op \in {"FENCE", "FENCEI"} -> Done(h, "Next")
          [] op = "ECALL" ->
                Raise(h, Fault(CASE h.mode = "U" -> "UserEcall"
                                 [] h.mode = "S" -> "SupervisorEcall"
                                 [] h.mode = "M" -> "MachineEcall"))
          \* todo!()
          [] op = "EBREAK" -> Raise(h, Panic)

\* inst() of zicsr exec: read the CSR, compute, write it if asked, set rd.
csr_inst(h, op, ty, src, write) ==
    LET csr == u64_from(ty.val)
        f(old_csr) == CASE op \in {"CSRRW", "CSRRWI"} -> src
                        [] op \in {"CSRRS", "CSRRSI"} -> bitor(src, old_csr)
                        [] op \in {"CSRRC", "CSRRCI"} -> bitand(old_csr, not(src))
        set_rd(c, old_csr) ==
            Done([h EXCEPT !.csrs = c,
                           !.registers = write_register(@, ty.rd, old_csr)], "Next")
        written(w, old_csr) ==
            IF w.res # Ok THEN Raise(h, w.res) ELSE set_rd(w.csrs, old_csr)
        read(r) ==
            IF r.res # Ok THEN Raise(h, r.res)
            ELSE IF write THEN written(write_csr(h.csrs, csr, f(r.out), h.mode), r.out)
            ELSE set_rd(h.csrs, r.out)
    IN  read(read_csr(h.csrs, csr, h.mode))

\* A variant that refuses MRET in every mode.
mret_mut(h) == Raise(h, IllegalInstruction({}))

\* The MRET arm: mstatus and pc are written before from_bits decodes MPP.
mret(h) ==
    IF h.mode # "M" THEN Raise(h, IllegalInstruction({}))
    ELSE LET new_pc == read_csr(h.csrs, MEPC, "M").out
             status == read_csr(h.csrs, MSTATUS, "M").out
             mpp == get_bits(status, 11, 13)
             new == set_bits(set_bit(set_bit(status, 3, get_bit(status, 7)), 7, TRUE),
                             11, 13, Address(to_bits("U")))
             h1 == [h EXCEPT !.csrs = write_csr(h.csrs, MSTATUS, new, "M").csrs,
                             !.pc = new_pc]
             m == from_bits(u64_from(mpp))
         IN  IF m = "unreachable" THEN Raise(h1, Panic)
             ELSE Done([h1 EXCEPT !.mode = m], "Jump")

\* The SRET arm.  `cpu.mode() < req_prv` compares two values of the enum
\* PrivilegeMode, whose order is that of its declaration: Machine, Supervisor,
\* User (src/src/cpu.rs:13-21).
sret(h) ==
    LET status == force_read_csr(h.csrs, MSTATUS)
        req_prv == IF get_bit(status, 22) THEN "M" ELSE "S"
        discriminant(m) == CASE m = "M" -> 0 [] m = "S" -> 1 [] m = "U" -> 2
        new == set_bit(set_bit(set_bit(status, 1, get_bit(status, 5)), 5, TRUE), 8, FALSE)
    IN  IF discriminant(h.mode) < discriminant(req_prv)
        THEN Raise(h, IllegalInstruction({}))
        ELSE Done([h EXCEPT !.csrs = force_write_csr(h.csrs, MSTATUS, new),
                            !.pc = read_csr(h.csrs, SEPC, "S").out,
                            !.mode = from_bits(IF get_bit(status, 8) THEN 1 ELSE 0)],
                  "Jump")

\* zicsr Instruction::exec
zicsr_exec(i, h) ==
    LET op == i.op
        ty == i.ty
    IN  CASE op \in {"CSRRW", "CSRRS", "CSRRC"} ->
                csr_inst(h, op, ty, read_register(h.registers, ty.rs), ty.rs # 0)
          [] op \in {"CSRRWI", "CSRRSI", "CSRRCI"} ->
                csr_inst(h, op, ty, Address(ty.rs), TRUE)
          [] op = "WFI" -> Done(h, "Next")
          [] op = "MRET" -> mret(h)
          [] op = "SRET" -> sret(h)
          [] op = "SFENCE_VMA" ->
                IF h.mode = "S" /\ get_bit(force_read_csr(h.csrs, MSTATUS), 20)
                THEN Raise(h, IllegalInstruction({}))
                ELSE Done(h, "Next")
          \* todo!()
          [] op = "URET" -> Raise(h, Panic)

-----------------------------------------------------------------------------
(* The hart driver, src/src/cpu.rs and src/src/emulator.rs.                 *)

\* Cpu::parse_and_exec
parse_and_exec(inst, h) ==
    LET zicsr(i) == IF i # None THEN zicsr_exec(i, h)
                    ELSE Raise(h, IllegalInstruction(inst))
        base(i) == IF i # None THEN rv32i_exec(i, h) ELSE zicsr(zicsr_parse(inst))
    IN  base(rv32i_parse(inst))

\* Cpu::step: the hart after the call and its Result, with the interrupt the
\* prologue took (or None), the pc and mode the fetch was made with, and the
\* word fetched (when the fetch succeeded).
step(h) ==
    LET continue(h1, r, at) ==
            IF r.res # Ok THEN [h |-> r.h, res |-> r.res, at |-> at]
            ELSE [h |-> CASE r.cont = "Next" ->
                                [r.h EXCEPT !.pc = wrapping_add(h1.pc, Address(4))]
                          [] r.cont = "WaitForInterrupt" -> [r.h EXCEPT !.pc = h1.pc]
                          [] r.cont = "Jump" -> r.h,
                  res |-> Ok, at |-> at]
        fetched(h1, f, at) ==
            IF f.res # Ok THEN [h |-> h1, res |-> f.res, at |-> at]
            ELSE IF bitand(h1.pc, Address(3)) # Address(0)
            THEN [h |-> h1, res |-> Exc("InstructionAddressMisaligned", h1.pc), at |-> at]
            ELSE continue(h1, parse_and_exec(f.out, h1), at)
        fetch(h1, int, f) ==
            fetched(h1, f, [int |-> int, fetch_pc |-> h1.pc, fetch_mode |-> h1.mode,
                            fetched |-> f.res = Ok, inst |-> f.out])
        prologue(h1, int) == fetch(h1, int, mem_read(h1.mem, h1.pc, 4))
        pending(int) == prologue(IF int # None THEN take_trap(h, int) ELSE h, int)
    IN  pending(check_pending_interrupt(h))

-----------------------------------------------------------------------------
(* States the other variables rest in while one component is exercised.     *)

IdleHart ==
    /\ pc = {}
    /\ mode = "M"
    /\ csrs = new_csrs
    /\ mem = <<>>
    /\ panicked = FALSE

-----------------------------------------------------------------------------
(* SpecRegs: the register file under write_register calls.                  *)

RegVals == {Address(0), Address(5), not(Address(0))}

InitRegs ==
    /\ registers = new_registers
    /\ steps = 0
    /\ ev = [kind |-> "new"]
    /\ IdleHart

WriteRegister(reg, x) ==
    /\ steps < MaxRegOps
    /\ registers' = write_register(registers, reg, x)
    /\ steps' = steps + 1
    /\ ev' = [kind |-> "write_register", reg |-> reg, val |-> x]
    /\ UNCHANGED <<pc, mode, csrs, mem, panicked>>

NextRegs == \E reg \in RegIndex, x \in RegVals : WriteRegister(reg, x)

SpecRegs == InitRegs /\ [][NextRegs]_vars

\* C1: after any sequence of write_register calls, read_register(x0) is 0.
C1_ReadX0IsZero == read_register(registers, 0) = Address(0)

\* C2: write_register(x0, v) is a no-op: every read_register(r) is unchanged.
C2_WriteX0NoOp ==
    [][(ev'.kind = "write_register" /\ ev'.reg = 0)
        => \A r \in RegIndex :
              read_register(registers', r) = read_register(registers, r)]_vars

\* C35: write_register(r, v) for r in x1 .. x31 makes read_register(r) return
\* v and leaves read_register(r') as it was for every other r', x0 included.
C35_WriteRead ==
    [][(ev'.kind = "write_register" /\ ev'.reg # 0)
        => /\ read_register(registers', ev'.reg) = ev'.val
           /\ \A r \in RegIndex \ {ev'.reg} :
                 read_register(registers', r) = read_register(registers, r)]_vars

\* A write to x0 was issued on a register file that holds non-zero values.
C2_Witness ==
    /\ ev.kind = "write_register"
    /\ ev.reg = 0
    /\ ev.val # Address(0)
    /\ \E r \in RegIndex : read_register(registers, r) # Address(0)

-----------------------------------------------------------------------------
(* SpecCsr: the CSR file under read_csr, write_csr and readable_in calls    *)
(* made in any privilege mode.                                              *)

\* Values written: 0, all ones, and the M-only bits MIE | MPIE | MPP | TVM | TSR
\* of mstatus.
CsrVals == {Address(0), not(Address(0)), {3, 7, 11, 12, 20, 22}}

\* CSR numbers the calls are made with: the views and their backing cells, a
\* plain cell, and every value of bits 11:8 that has its own outcome.
CsrNumbers ==
    {USTATUS, SSTATUS, SIE, SEPC, SIP, SATP, MSTATUS, MIDELEG, MIE, MIP, CYCLE,
     MHARTID, CSR_H, CSR_RO_S, CSR_RO_H}

InitCsr ==
    /\ csrs = new_csrs
    /\ registers = new_registers
    /\ pc = {}
    /\ mode = "M"
    /\ mem = <<>>
    /\ panicked = FALSE
    /\ steps = 0
    /\ ev = [kind |-> "new"]

CsrWrite(csr, val, m) ==
    /\ ~panicked
    /\ steps < MaxCsrOps
    /\ LET r == write_csr(csrs, csr, val, m)
       IN  /\ csrs' = r.csrs
           /\ panicked' = (r.res.exc = "panic")
           /\ ev' = [kind |-> "write_csr", csr |-> csr, val |-> val, mode |-> m,
                     res |-> r.res]
    /\ steps' = steps + 1
    /\ UNCHANGED <<registers, pc, mode, mem>>

CsrRead(csr, m) ==
    /\ ~panicked
    /\ steps < MaxCsrOps
    /\ LET r == read_csr(csrs, csr, m)
       IN  /\ panicked' = (r.res.exc = "panic")
           /\ ev' = [kind |-> "read_csr", csr |-> csr, mode |-> m,
                     res |-> r.res, out |-> r.out]
    /\ steps' = steps + 1
    /\ UNCHANGED <<registers, pc, mode, mem, csrs>>

CsrReadableIn(csr, m) ==
    /\ ~panicked
    /\ steps < MaxCsrOps
    /\ LET r == readable_in(csr, m)
       IN  /\ panicked' = (r = "panic")
           /\ ev' = [kind |-> "readable_in", csr |-> csr, mode |-> m, res |-> r]
    /\ steps' = steps + 1
    /\ UNCHANGED <<registers, pc, mode, mem, csrs>>

\* SFENCE.VMA executed by Instruction::exec in mode m.
SfenceVma(m) ==
    /\ ~panicked
    /\ steps < MaxCsrOps
    /\ LET h == [registers |-> registers, pc |-> pc, mode |-> m, csrs |-> csrs,
                 mem |-> mem]
           returned(r) ==
               /\ csrs' = r.h.csrs
               /\ ev' = [kind |-> "sfence_vma", mode |-> m, res |-> r.res,
                         same |-> r.h = h]
       IN  returned(zicsr_exec([op |-> "SFENCE_VMA",
                                ty |-> [rd |-> 0, rs1 |-> 0, rs2 |-> 0]], h))
    /\ steps' = steps + 1
    /\ UNCHANGED <<registers, pc, mode, mem, panicked>>

NextCsr ==
    \/ \E m \in PrivilegeMode : SfenceVma(m)
    \/ \E csr \in CsrNumbers, val \in CsrVals, m \in PrivilegeMode : CsrWrite(csr, val, m)
    \/ \E csr \in CsrNumbers, m \in PrivilegeMode : CsrRead(csr, m)
    \/ \E csr \in CsrNumbers, m \in PrivilegeMode : CsrReadableIn(csr, m)

SpecCsr == InitCsr /\ [][NextCsr]_vars

\* C5: read(sstatus, M) = read(mstatus, M) & SSTATUS_MASK in every state, and
\* a write to sstatus leaves every mstatus bit outside SSTATUS_MASK unchanged.
C5_SstatusView ==
    /\ [](read_csr(csrs, SSTATUS, "M").res.exc = "Ok"
          /\ read_csr(csrs, MSTATUS, "M").res.exc = "Ok"
          /\ read_csr(csrs, SSTATUS, "M").out
               = bitand(read_csr(csrs, MSTATUS, "M").out, SSTATUS_MASK))
    /\ [][(ev'.kind = "write_csr" /\ ev'.csr = SSTATUS)
           => /\ bitand(csrs'[MSTATUS], not64(SSTATUS_MASK))
                   = bitand(csrs[MSTATUS], not64(SSTATUS_MASK))
              /\ \A n \in CsrIndex \ {MSTATUS} : csrs'[n] = csrs[n]]_vars

\* sstatus was written, successfully and with all ones, while mstatus held
\* M-only bits; the view then reads a non-zero value that differs from mstatus.
C5_Witness ==
    /\ ev.kind = "write_csr"
    /\ ev.csr = SSTATUS
    /\ ev.res.exc = "Ok"
    /\ ev.val = not(Address(0))
    /\ get_bit(csrs[MSTATUS], 3)
    /\ get_bit(csrs[MSTATUS], 11)
    /\ force_read_csr(csrs, SSTATUS) = to_self_kind(SSTATUS_MASK)
    /\ force_read_csr(csrs, SSTATUS) # csrs[MSTATUS]

\* C6: write_csr to a CSR whose bits 11:10 are 0b11 fails with
\* IllegalInstruction(0) in every mode and leaves the CSR file unchanged.
C6_ReadOnlyWrite ==
    [][(ev'.kind = "write_csr" /\ ev'.csr \div 1024 = 3)
        => /\ ev'.res = IllegalInstruction({})
           /\ csrs' = csrs]_vars

\* A non-zero write to a read-only CSR was attempted in M-mode.
C6_Witness ==
    /\ ev.kind = "write_csr"
    /\ ev.csr = MHARTID
    /\ ev.mode = "M"
    /\ ev.val # Address(0)
    /\ ev.res = IllegalInstruction({})

\* C23: in S-mode with mstatus.TVM = 1 a read of satp, a write of satp and
\* SFENCE.VMA each raise IllegalInstruction and change no state; in M-mode,
\* and in S-mode with TVM = 0, none of them raises and SFENCE.VMA changes no
\* state.
C23_Tvm ==
    [][(\/ ev'.kind \in {"read_csr", "write_csr"} /\ ev'.csr = SATP
        \/ ev'.kind = "sfence_vma")
       => IF ev'.mode = "S" /\ 20 \in csrs[MSTATUS]
          THEN ev'.res = IllegalInstruction(Address(0)) /\ csrs' = csrs
          ELSE ev'.mode \in {"S", "M"} =>
                 /\ ev'.res = Ok
                 /\ ev'.kind = "sfence_vma" => ev'.same
                 /\ ev'.kind = "read_csr" => csrs' = csrs /\ ev'.out = csrs[SATP]]_vars

\* A read of satp was refused in S-mode while TVM was set.
C23_Witness ==
    /\ ev.kind = "read_csr"
    /\ ev.csr = SATP
    /\ ev.mode = "S"
    /\ 20 \in csrs[MSTATUS]
    /\ ev.res = IllegalInstruction(Address(0))

\* C24: a write of v to sie (sip) sets mie (mip) to (old & ~mideleg) |
\* (v & mideleg) and changes no other CSR, and in every state read(sie) =
\* mie & mideleg and read(sip) = mip & mideleg.
C24_SieSipView ==
    /\ [](/\ force_read_csr(csrs, SIE) = csrs[MIE] \cap csrs[MIDELEG]
          /\ force_read_csr(csrs, SIP) = csrs[MIP] \cap csrs[MIDELEG])
    /\ [][(ev'.kind = "write_csr" /\ ev'.csr \in {SIE, SIP} /\ ev'.res = Ok)
          => LET x == IF ev'.csr = SIE THEN MIE ELSE MIP
             IN  /\ csrs'[x] = (csrs[x] \ csrs[MIDELEG])
                               \cup (ev'.val \cap csrs[MIDELEG])
                 /\ \A n \in CsrIndex \ {x} : csrs'[n] = csrs[n]
                 /\ force_read_csr(csrs', ev'.csr) = ev'.val \cap csrs[MIDELEG]]_vars

\* C7: for every CSR number (every value of bits 9:8) readable_in yields a
\* boolean, true exactly when mode can_access the privilege of bits 9:8, and
\* it is monotone in the mode.
C7_ReadableTotal ==
    ev.kind = "readable_in" =>
        /\ ev.res \in {"true", "false"}
        /\ (ev.res = "true") <=>
              LET lvl == (ev.csr \div 256) % 4
              IN  \/ ev.mode = "M"
                  \/ ev.mode = "S" /\ lvl \in {0, 1}
                  \/ ev.mode = "U" /\ lvl = 0
        /\ readable_in(ev.csr, "U") = "true" => readable_in(ev.csr, "S") = "true"
        /\ readable_in(ev.csr, "S") = "true" => readable_in(ev.csr, "M") = "true"

-----------------------------------------------------------------------------
(* SpecDecode: every instruction of the two Instruction enums, in its       *)
(* standard encoding (The RISC-V Instruction Set Manual, RV32I and Zicsr    *)
(* listings, and the privileged listing for xRET, WFI and SFENCE.VMA),      *)
(* through the decoders.                                                    *)

\* <<mnemonic, format, opcode, funct3, funct7>> of the standard listings.
StdEncoding ==
    {<<"ADD", "R", 51, 0, 0>>, <<"SUB", "R", 51, 0, 32>>, <<"SLL", "R", 51, 1, 0>>,
     <<"SLT", "R", 51, 2, 0>>, <<"SLTU", "R", 51, 3, 0>>, <<"XOR", "R", 51, 4, 0>>,
     <<"SRL", "R", 51, 5, 0>>, <<"SRA", "R", 51, 5, 32>>, <<"OR", "R", 51, 6, 0>>,
     <<"AND", "R", 51, 7, 0>>,
     <<"LB", "I", 3, 0, 0>>, <<"LH", "I", 3, 1, 0>>, <<"LW", "I", 3, 2, 0>>,
     <<"LBU", "I", 3, 4, 0>>, <<"LHU", "I", 3, 5, 0>>, <<"FENCE", "I", 15, 0, 0>>,
     <<"ADDI", "I", 19, 0, 0>>, <<"SLTI", "I", 19, 2, 0>>, <<"SLTIU", "I", 19, 3, 0>>,
     <<"XORI", "I", 19, 4, 0>>, <<"ORI", "I", 19, 6, 0>>, <<"ANDI", "I", 19, 7, 0>>,
     <<"SLLI", "Sh", 19, 1, 0>>, <<"SRLI", "Sh", 19, 5, 0>>, <<"SRAI", "Sh", 19, 5, 32>>,
     <<"JALR", "I", 103, 0, 0>>, <<"ECALL", "E", 115, 0, 0>>, <<"EBREAK", "E", 115, 0, 0>>,
     <<"FENCEI", "E", 15, 1, 0>>,
     <<"SB", "S", 35, 0, 0>>, <<"SH", "S", 35, 1, 0>>, <<"SW", "S", 35, 2, 0>>,
     <<"BEQ", "B", 99, 0, 0>>, <<"BNE", "B", 99, 1, 0>>, <<"BLT", "B", 99, 4, 0>>,
     <<"BGE", "B", 99, 5, 0>>, <<"BLTU", "B", 99, 6, 0>>, <<"BGEU", "B", 99, 7, 0>>,
     <<"LUI", "U", 55, 0, 0>>, <<"AUIPC", "U", 23, 0, 0>>, <<"JAL", "J", 111, 0, 0>>,
     <<"CSRRW", "I", 115, 1, 0>>, <<"CSRRS", "I", 115, 2, 0>>, <<"CSRRC", "I", 115, 3, 0>>,
     <<"CSRRWI", "I", 115, 5, 0>>, <<"CSRRSI", "I", 115, 6, 0>>,
     <<"CSRRCI", "I", 115, 7, 0>>,
     <<"URET", "X", 115, 0, 0>>, <<"SRET", "X", 115, 0, 8>>, <<"MRET", "X", 115, 0, 24>>,
     <<"WFI", "X", 115, 0, 8>>, <<"SFENCE_VMA", "V", 115, 0, 9>>}

\* The standard 32-bit encoding of an instruction.
encode(i) ==
    LET e == CHOOSE t \in StdEncoding : t[1] = i.op
        fmt == e[2]
        head == Address(e[3]) \cup shl(Address(e[4]), 12)
        reg(r, to) == shl(Address(r), to)
        ty == i.ty
    IN  CASE fmt \in {"R", "X", "V"} ->
                head \cup reg(ty.rd, 7) \cup reg(ty.rs1, 15) \cup reg(ty.rs2, 20)
                     \cup shl(Address(e[5]), 25)
          [] fmt \in {"I", "E"} ->
                head \cup reg(ty.rd, 7) \cup reg(ty.rs, 15) \cup Field(ty.val, 0, 12, 20)
          [] fmt = "Sh" ->
                head \cup reg(ty.rd, 7) \cup reg(ty.rs, 15) \cup Field(ty.val, 0, 5, 20)
                     \cup shl(Address(e[5]), 25)
          [] fmt = "S" ->
                head \cup reg(ty.rs1, 15) \cup reg(ty.rs2, 20)
                     \cup Field(ty.val, 0, 5, 7) \cup Field(ty.val, 5, 7, 25)
          [] fmt = "B" ->
                head \cup reg(ty.rs1, 15) \cup reg(ty.rs2, 20)
                     \cup Field(ty.val, 12, 1, 31) \cup Field(ty.val, 5, 6, 25)
                     \cup Field(ty.val, 1, 4, 8) \cup Field(ty.val, 11, 1, 7)
          [] fmt = "U" ->
                Address(e[3]) \cup reg(ty.rd, 7) \cup Field(ty.val, 12, 20, 12)
          [] fmt = "J" ->
                Address(e[3]) \cup reg(ty.rd, 7)
                     \cup Field(ty.val, 20, 1, 31) \cup Field(ty.val, 1, 10, 21)
                     \cup Field(ty.val, 11, 1, 20) \cup Field(ty.val, 12, 8, 12)

\* Registers and immediates the instructions are built from.
RegSample == {0, 1, 2, 31}

ImmSample == {Address(0), Address(1), Address(1024), Address(2047), Address(2048),
              Address(4095)}

\* The instructions of format fmt, with their operands in range.
Operands(op, fmt) ==
    CASE fmt = "R" -> {[rd |-> a, rs1 |-> b, rs2 |-> c] : a, b, c \in RegSample}
      [] fmt = "V" -> {[rd |-> 0, rs1 |-> b, rs2 |-> c] : b, c \in RegSample}
      [] fmt = "X" -> {[rd |-> 0, rs1 |-> 0, rs2 |-> IF op = "WFI" THEN 5 ELSE 2]}
      [] fmt = "E" -> {[val |-> Address(IF op = "EBREAK" THEN 1 ELSE 0), rd |-> 0, rs |-> 0]}
      [] fmt = "I" -> {[val |-> v, rd |-> a, rs |-> b] : v \in ImmSample, a, b \in RegSample}
      [] fmt = "Sh" -> {[val |-> v, rd |-> a, rs |-> b] :
                          v \in {Address(0), Address(1), Address(31)}, a, b \in RegSample}
      [] fmt = "S" -> {[val |-> v, rs1 |-> a, rs2 |-> b] : v \in ImmSample, a, b \in RegSample}
      [] fmt = "B" -> {[val |-> shl(v, 1), rs1 |-> a, rs2 |-> b] :
                          v \in ImmSample, a, b \in RegSample}
      [] fmt = "U" -> {[val |-> shl(v, 12), rd |-> a] :
                          v \in ImmSample \cup {shl(Address(1), 19)}, a \in RegSample}
      [] fmt = "J" -> {[val |-> shl(v, 1), rd |-> a] :
                          v \in ImmSample \cup {shl(Address(1), 19)}, a \in RegSample}

Instructions ==
    UNION {{[op |-> e[1], ty |-> t] : t \in Operands(e[1], e[2])} : e \in StdEncoding}

InitDecode ==
    /\ ev \in {[kind |-> "instruction", inst |-> i] : i \in Instructions}
    /\ registers = new_registers
    /\ csrs = new_csrs
    /\ pc = {}
    /\ mode = "M"
    /\ mem = <<>>
    /\ panicked = FALSE
    /\ steps = 0

Decode ==
    /\ ev.kind = "instruction"
    /\ ev' = [kind |-> "decoded", inst |-> ev.inst, word |-> encode(ev.inst),
              out |-> decode(encode(ev.inst))]
    /\ UNCHANGED <<registers, pc, mode, csrs, mem, panicked, steps>>

NextDecode == Decode

SpecDecode == InitDecode /\ [][NextDecode]_vars

\* C8: decoding the standard encoding of an instruction, base decoder first
\* and Zicsr second, gives the instruction back.
C8_DecodeRoundTrip == ev.kind = "decoded" => ev.out = ev.inst

-----------------------------------------------------------------------------------------------------------------------------------------------------
(* Spec: the hart under Emulator::run (built by from_object, so without a   *)
(* tohost address): each turn of the loop calls Cpu::step, and delivers the *)
(* exception when step returns one.  The image is a program of Programs in  *)
(* a RAM device at base 0, entered at 0.                                    *)

csrrwi(csr, zimm) == [op |-> "CSRRWI", ty |-> [val |-> Address(csr), rd |-> 0, rs |-> zimm]]

\* The standard encoding of `or x1, x2, x3`, which neither decoder takes.
OrWord == encode([op |-> "OR", ty |-> [rd |-> 1, rs1 |-> 2, rs2 |-> 3]])

\* Words of the programs that set up interrupts, vectors and delegation.
TrapWords ==
    {OrWord}
    \cup {encode(i) : i \in
           {csrrwi(MEDELEG, 4), csrrwi(STVEC, 8), csrrwi(MTVEC, 5),
            csrrwi(MIE, 8), csrrwi(MIP, 8), csrrwi(MSTATUS, 8),
            [op |-> "SW", ty |-> [val |-> Address(0), rs1 |-> 0, rs2 |-> 0]],
            [op |-> "MRET", ty |-> [rd |-> 0, rs1 |-> 0, rs2 |-> 2]]}}

\* Words of the programs that move pc and write mstatus from a register.
JumpWords ==
    {Address(0)}
    \cup {encode(i) : i \in
           {csrrwi(MEPC, 2),
            [op |-> "MRET", ty |-> [rd |-> 0, rs1 |-> 0, rs2 |-> 2]],
            [op |-> "LUI", ty |-> [val |-> shl(Address(1), 12), rd |-> 1]],
            [op |-> "CSRRW", ty |-> [val |-> Address(MSTATUS), rd |-> 0, rs |-> 1]],
            [op |-> "JAL", ty |-> [val |-> Address(2), rd |-> 1]],
            [op |-> "JALR", ty |-> [val |-> Address(4), rd |-> 0, rs |-> 0]],
            [op |-> "BEQ", ty |-> [val |-> Address(2), rs1 |-> 0, rs2 |-> 0]],
            [op |-> "ECALL", ty |-> [val |-> Address(0), rd |-> 0, rs |-> 0]],
            [op |-> "WFI", ty |-> [rd |-> 0, rs1 |-> 0, rs2 |-> 5]]}}

Programs == [Cells -> TrapWords] \cup [Cells -> JumpWords]

\* The Cpu as a record, and the variables after it became h.
hart == [registers |-> registers, pc |-> pc, mode |-> mode, csrs |-> csrs, mem |-> mem]

SetHart(h) ==
    /\ registers' = h.registers
    /\ pc' = h.pc
    /\ mode' = h.mode
    /\ csrs' = h.csrs
    /\ mem' = h.mem

Init ==
    /\ registers = new_registers
    /\ pc = Address(0)
    /\ mode = "M"
    /\ csrs = new_csrs
    /\ mem \in Programs
    /\ panicked = FALSE
    /\ steps = 0
    /\ ev = [kind |-> "new"]

\* `match self.cpu.step()`: the call, its Result kept for the match arm.
Step ==
    /\ ~panicked
    /\ steps < MaxSteps
    /\ ev.kind = "step" => ev.res = Ok
    /\ LET returned(r) ==
               /\ SetHart(r.h)
               /\ panicked' = (r.res = Panic)
               /\ ev' = [kind |-> "step", res |-> r.res, at |-> r.at]
       IN  returned(step(hart))
    /\ steps' = steps + 1

\* `Err(trap) => trap.take_trap(&mut self.cpu)`
Deliver ==
    /\ ~panicked
    /\ ev.kind = "step"
    /\ ev.res # Ok
    /\ SetHart(take_trap(hart, ev.res))
    /\ ev' = [kind |-> "take_trap", e |-> ev.res, from |-> mode, pc0 |-> pc,
              csrs0 |-> csrs]
    /\ UNCHANGED <<panicked, steps>>

Next == Step \/ Deliver

Spec == Init /\ [][Next]_vars

\* The CSRs a trap handled in S-mode writes, and those of M-mode.
TrapCsrs(x) == IF x = "S" THEN <<SEPC, SCAUSE, STVAL, STVEC>>
                          ELSE <<MEPC, MCAUSE, MTVAL, MTVEC>>

\* C3: after a step that executed an instruction and raised nothing, pc is
\* a multiple of 4.
C3_PcAligned ==
    (ev.kind = "step" /\ ev.res = Ok) => ~get_bit(pc, 0) /\ ~get_bit(pc, 1)

\* C4: a step that fetches MRET with no interrupt pending, in M-mode, returns
\* Ok with mode = the mode of the old MPP, MPP = U, MPIE = 1, MIE = the old
\* MPIE, every other bit of mstatus as before and pc = mepc; in S-mode or
\* U-mode it raises IllegalInstruction and changes no state.
C4_Mret ==
    [][(/\ ev'.kind = "step"
        /\ ev'.at.int = None
        /\ ev'.at.fetched
        /\ decode(ev'.at.inst).op = "MRET")
       => IF mode = "M"
          THEN /\ ev'.res = Ok
               /\ mode' = from_bits(u64_from(get_bits(csrs[MSTATUS], 11, 13)))
               /\ csrs'[MSTATUS] = (csrs[MSTATUS] \ {3, 11, 12})
                                   \cup {7}
                                   \cup (IF 7 \in csrs[MSTATUS] THEN {3} ELSE {})
               /\ pc' = csrs[MEPC]
          ELSE /\ ev'.res = IllegalInstruction(Address(0))
               /\ UNCHANGED <<registers, pc, mode, csrs, mem>>]_vars

\* C38: in every state the guest's instructions reach, CSR writes of any
\* value to mstatus included, mstatus.MPP decodes to U, S or M, so that no
\* step aborts on the encoding 0b10.
C38_MppDecodes ==
    /\ from_bits(u64_from(get_bits(csrs[MSTATUS], 11, 13))) \in PrivilegeMode
    /\ ev.kind = "step" => ev.res # Panic

\* A hart in any mode with one interrupt enabled and pending, which stays
\* pending, vectors at 4 (M) and 8 (S), and an image whose words set MIE, set
\* SIE, wait, or return with MRET.
InitHandler ==
    /\ registers = new_registers
    /\ pc = Address(0)
    /\ mode \in PrivilegeMode
    /\ \E mideleg \in {Address(0), {1, 3, 9}}, pending \in {{1}, {3}, {9}},
          status \in {Address(0), {1, 3}} :
          csrs = [new_csrs EXCEPT ![MIDELEG] = mideleg, ![MIE] = pending,
                                  ![MIP] = pending, ![MSTATUS] = status,
                                  ![MTVEC] = Address(4), ![STVEC] = Address(8)]
    /\ mem \in [Cells -> {encode(i) : i \in
                   {csrrwi(MSTATUS, 8), csrrwi(SSTATUS, 2),
                    [op |-> "WFI", ty |-> [rd |-> 0, rs1 |-> 0, rs2 |-> 5]],
                    [op |-> "MRET", ty |-> [rd |-> 0, rs1 |-> 0, rs2 |-> 2]]}}]
    /\ panicked = FALSE
    /\ steps = 0
    /\ ev = [kind |-> "new"]

SpecHandler == InitHandler /\ [][Next]_vars

\* The interrupt enable bit of mstatus for the mode a trap is handled in.
Xie(x) == IF x = "M" THEN 3 ELSE 1

\* C40: a delivered interrupt is not delivered again while its handler runs.
\* A step that delivers an interrupt fetches in the handling mode x, S or M,
\* and unless its instruction completes (and may have written mstatus or
\* returned) leaves the hart in mode x with xIE = 0; and a step that starts
\* in mode x with xIE = 0 delivers no interrupt, also with the bit still
\* pending in mip.
C40_NoRedelivery ==
    /\ [][(ev'.kind = "step" /\ ev'.at.int # None)
          => /\ ev'.at.fetch_mode \in {"S", "M"}
             /\ (ev'.res # Ok \/ decode(ev'.at.inst).op = "WFI")
                  => /\ mode' = ev'.at.fetch_mode
                     /\ Xie(mode') \notin csrs'[MSTATUS]]_vars
    /\ [][(/\ ev'.kind = "step"
           /\ mode \in {"S", "M"}
           /\ Xie(mode) \notin csrs[MSTATUS])
          => ev'.at.int = None]_vars

\* An interrupt was delivered to S-mode earlier, its bit is still enabled
\* and pending, and a later step in S-mode with SIE = 0 delivered nothing.
C40_Witness ==
    /\ ev.kind = "step"
    /\ ev.at.int = None
    /\ ev.at.fetch_mode = "S"
    /\ mode = "S"
    /\ 1 \notin csrs[MSTATUS]
    /\ 31 \in csrs[SCAUSE]
    /\ csrs[MIE] \cap csrs[MIP] # {}
    /\ steps >= 2

\* C9: a step whose fetched word neither decoder takes raises
\* IllegalInstruction(word) and leaves pc, the registers and memory as they
\* were; with medeleg bit 2 clear the next thing that happens is one
\* delivery, with mcause = 2, mtval = the word, mepc = the pc of the word and
\* pc = the M-mode trap vector, and after it the loop steps again.
C9_IllegalEncoding ==
    /\ [][(/\ ev'.kind = "step"
           /\ ev'.at.fetched
           /\ decode(ev'.at.inst) = None)
          => /\ ev'.res = IllegalInstruction(ev'.at.inst)
             /\ ev'.at.fetch_pc = pc'
             /\ UNCHANGED <<pc, registers, mem>>]_vars
    /\ [][(/\ ev.kind = "step"
           /\ ev.at.fetched
           /\ decode(ev.at.inst) = None
           /\ ~get_bit(csrs[MEDELEG], 2))
          => /\ ev'.kind = "take_trap"
             /\ csrs'[MCAUSE] = Address(2)
             /\ csrs'[MTVAL] = ev.at.inst
             /\ csrs'[MEPC] = ev.at.fetch_pc
             /\ mode' = "M"
             /\ pc' = wrapping_add(csrs[MTVEC] \ {0},
                                   IF 0 \in csrs[MTVEC] THEN Address(8)
                                                        ELSE Address(0))]_vars
    /\ [][ev.kind = "take_trap" => ev'.kind = "step"]_vars

\* C16: a step that finds a pending interrupt delivers the trap and does
\* nothing else: it returns Ok without a fetch, xepc of the handling mode is
\* the pc from before the step, pc is the handler address, and the general
\* registers and memory are unchanged.
C16_InterruptOnly ==
    [][(ev'.kind = "step" /\ ev'.at.int # None)
       => /\ ev'.res = Ok
          /\ ~ev'.at.fetched
          /\ csrs'[TrapCsrs(take_trap(hart, ev'.at.int).mode)[1]] = pc
          /\ pc' = take_trap(hart, ev'.at.int).pc
          /\ UNCHANGED <<registers, mem>>]_vars

\* C17: a step that executes WFI returns Ok and leaves pc at the WFI.
C17_WfiKeepsPc ==
    [][(/\ ev'.kind = "step"
        /\ ev'.at.fetched
        /\ decode(ev'.at.inst).op = "WFI")
       => /\ ev'.res = Ok
          /\ pc' = ev'.at.fetch_pc]_vars

-----------------------------------------------------------------------------
(* SpecTrap: Exception::take_trap on its own.  The hart is in any mode,     *)
(* with delegation registers, vectors, status and pending interrupts drawn  *)
(* from small sets, and the exception is any value of the Exception enum,   *)
(* the ECALL being the one of the mode.                                     *)

DelegVals == {Address(0), {2, 8, 11}, {1, 7}, not(Address(0))}

PendingVals == {Address(0), {1}, {7}, {9}}

Raisable(h) ==
    {IllegalInstruction(OrWord)}
    \cup {Exc(n, Address(2)) :
            n \in {"InstructionAddressMisaligned", "LoadAddressMisaligned",
                   "StoreAddressMisaligned", "InstructionPageFault",
                   "LoadPageFault", "StorePageFault"}}
    \cup {Fault(n) :
            n \in {"InstructionAccessFault", "Breakpoint", "LoadAccessFault",
                   "StoreAccessFault",
                   CASE h.mode = "U" -> "UserEcall"
                     [] h.mode = "S" -> "SupervisorEcall"
                     [] h.mode = "M" -> "MachineEcall"}}
    \cup {Interrupt(i) :
            i \in {"UserSoftwareInterrupt", "SupervisorSoftwareInterrupt",
                   "MachineSoftwareInterrupt", "UserTimerInterrupt",
                   "SupervisorTimerInterrupt", "MachineTimerInterrupt",
                   "UserExternalInterrupt", "SupervisorExternalInterrupt",
                   "MachineExternalInterrupt"}}

InitTrap ==
    /\ registers = new_registers
    /\ pc \in {Address(0), Address(4)}
    /\ mode \in PrivilegeMode
    /\ \E medeleg \in DelegVals, mideleg \in DelegVals, pending \in PendingVals,
          status \in {Address(0), {1, 3}},
          mtvec \in {Address(4), Address(5)}, stvec \in {Address(8), Address(9)} :
          csrs = [new_csrs EXCEPT ![MEDELEG] = medeleg, ![MIDELEG] = mideleg,
                                  ![MIE] = pending, ![MIP] = pending,
                                  ![MSTATUS] = status,
                                  ![MTVEC] = mtvec, ![STVEC] = stvec]
    /\ mem = [c \in Cells |-> Address(0)]
    /\ panicked = FALSE
    /\ steps = 0
    /\ \E e \in Raisable(hart) : ev = [kind |-> "raised", e |-> e]

TakeTrap ==
    /\ ev.kind = "raised"
    /\ SetHart(take_trap(hart, ev.e))
    /\ ev' = [kind |-> "take_trap", e |-> ev.e, from |-> mode, pc0 |-> pc,
              csrs0 |-> csrs]
    /\ UNCHANGED <<panicked, steps>>

NextTrap == TakeTrap

SpecTrap == InitTrap /\ [][NextTrap]_vars

\* C10: a trap with cause c taken in mode prv is handled in S-mode iff prv
\* is U or S and bit c of medeleg (mideleg for an interrupt) is 1, and in
\* M-mode otherwise; a trap taken in M-mode is handled in M-mode.
C10_Delegation ==
    ev.kind = "take_trap" =>
        LET deleg == force_read_csr(ev.csrs0, IF ev.e.exc = "Interrupt" THEN MIDELEG
                                                                      ELSE MEDELEG)
        IN  /\ mode \in {"S", "M"}
            /\ mode = "S" <=> (ev.from \in {"U", "S"} /\ cause(ev.e) \in deleg)
            /\ ev.from = "M" => mode = "M"

\* A trap of a delegated cause taken in U-mode was handled in S-mode.
C10_Witness ==
    /\ ev.kind = "take_trap"
    /\ ev.from = "U"
    /\ cause(ev.e) \in ev.csrs0[MEDELEG]
    /\ ev.e.exc # "Interrupt"
    /\ mode = "S"

\* C11: a trap handled in mode x with cause c writes xepc = the pc at the
\* time of the trap, xcause = c with bit XLEN-1 set iff it is an interrupt,
\* xtval = the trap value, sets mode = x and pc = (xtvec with bit 0 cleared)
\* + (4*c if xtvec bit 0 is 1); every CSR other than these three and mstatus
\* is unchanged.
C11_TrapRegisters ==
    ev.kind = "take_trap" =>
        LET x == TrapCsrs(mode)
            c == cause(ev.e)
            tvec == ev.csrs0[x[4]]
        IN  /\ mode \in {"S", "M"}
            /\ csrs[x[1]] = ev.pc0
            /\ csrs[x[2]] \cap (0 .. XLEN - 2) = Address(c)
            /\ (XLEN - 1 \in csrs[x[2]]) <=> (ev.e.exc = "Interrupt")
            /\ csrs[x[3]] = trap_value(ev.e, ev.pc0)
            /\ u64_from(pc) = u64_from(tvec \ {0}) + (IF 0 \in tvec THEN 4 * c ELSE 0)
            /\ \A n \in CsrIndex \ {x[1], x[2], x[3], MSTATUS} : csrs[n] = ev.csrs0[n]

\* A trap with a cause that carries into the vector base, handled in S-mode
\* through a vectored stvec.
C11_Witness ==
    /\ ev.kind = "take_trap"
    /\ mode = "S"
    /\ 0 \in ev.csrs0[STVEC]
    /\ cause(ev.e) = 2
    /\ pc = Address(16)
    /\ csrs[SEPC] = Address(4)

\* C12: a trap handled in S-mode sets SPIE = the old SIE, SIE = 0 and SPP = 1
\* iff it was taken from S; handled in M-mode it sets MPIE = the old MIE,
\* MIE = 0 and MPP = the encoding of the mode it was taken from; every other
\* bit of mstatus is unchanged.
C12_StatusStack ==
    ev.kind = "take_trap" =>
        LET old == ev.csrs0[MSTATUS]
        IN  IF mode = "S"
            THEN csrs[MSTATUS] = (old \ {1, 5, 8})
                                 \cup (IF 1 \in old THEN {5} ELSE {})
                                 \cup (IF ev.from = "S" THEN {8} ELSE {})
            ELSE csrs[MSTATUS] = (old \ {3, 7, 11, 12})
                                 \cup (IF 3 \in old THEN {7} ELSE {})
                                 \cup (CASE ev.from = "U" -> {}
                                         [] ev.from = "S" -> {11}
                                         [] ev.from = "M" -> {11, 12})

\* A trap taken from S with SIE set and handled in S, so that SPIE and SPP
\* become 1 and SIE 0.
C12_Witness ==
    /\ ev.kind = "take_trap"
    /\ ev.from = "S"
    /\ mode = "S"
    /\ 1 \in ev.csrs0[MSTATUS]
    /\ {5, 8} \subseteq csrs[MSTATUS]
    /\ 1 \notin csrs[MSTATUS]

\* C36: trap delivery never lowers the privilege: the mode after take_trap is
\* S or M and at least the mode the trap was taken in, in the order U < S < M,
\* and take_trap completes for every exception: the S-mode branch is entered
\* from U or S only, where its match on the previous mode has an arm.
C36_NeverLowers ==
    ev.kind = "take_trap" =>
        \/ mode = "M"
        \/ mode = "S" /\ ev.from \in {"U", "S"}

\* A trap of a delegated cause taken in M-mode stayed in M-mode.
C36_Witness ==
    /\ ev.kind = "take_trap"
    /\ ev.from = "M"
    /\ cause(ev.e) \in ev.csrs0[IF ev.e.exc = "Interrupt" THEN MIDELEG ELSE MEDELEG]
    /\ mode = "M"
    /\ {11, 12} \subseteq csrs[MSTATUS]

\* The handler returns at once: MRET when the trap was handled in M-mode,
\* SRET when it was handled in S-mode, with xepc and mstatus as delivery left
\* them.
Xret ==
    /\ ev.kind = "take_trap"
    /\ LET returned(r) ==
               /\ SetHart(r.h)
               /\ panicked' = (r.res = Panic)
               /\ ev' = [kind |-> "xret", handled |-> mode, res |-> r.res,
                         from |-> ev.from, pc0 |-> ev.pc0, csrs0 |-> ev.csrs0]
       IN  returned(zicsr_exec([op |-> IF mode = "M" THEN "MRET" ELSE "SRET",
                                ty |-> [rd |-> 0, rs1 |-> 0, rs2 |-> 2]], hart))
    /\ UNCHANGED steps

NextRet == TakeTrap \/ Xret

SpecRet == InitTrap /\ [][NextRet]_vars

\* C37: a trap followed by the matching xRET is a round trip: after a trap
\* taken in mode p at pc a and handled in M-mode (S-mode), MRET (SRET) with
\* mepc and mstatus (sepc and sstatus) as delivery left them completes with
\* mode = p, pc = a and MIE (SIE) equal to its value before the trap.
C37_RoundTrip ==
    ev.kind = "xret" =>
        LET xie == IF ev.handled = "M" THEN 3 ELSE 1
        IN  /\ ev.res = Ok
            /\ mode = ev.from
            /\ pc = ev.pc0
            /\ xie \in csrs[MSTATUS] <=> xie \in ev.csrs0[MSTATUS]

\* A trap taken in S-mode at pc 4 with MIE set was handled in M-mode and
\* MRET went back to S-mode at pc 4 with MIE set.
C37_Witness ==
    /\ ev.kind = "xret"
    /\ ev.handled = "M"
    /\ ev.from = "S"
    /\ ev.pc0 = Address(4)
    /\ 3 \in ev.csrs0[MSTATUS]
    /\ mode = "S"
    /\ pc = Address(4)
    /\ 3 \in csrs[MSTATUS]

\* The (cause, tval) pair of the taxonomy for an exception taken at pc_.
Taxonomy(e, pc_) ==
    CASE e.exc = "InstructionAddressMisaligned" -> <<0, e.val>>
      [] e.exc = "InstructionAccessFault" -> <<1, pc_>>
      [] e.exc = "IllegalInstruction" -> <<2, e.val>>
      [] e.exc = "Breakpoint" -> <<3, pc_>>
      [] e.exc = "LoadAddressMisaligned" -> <<4, e.val>>
      [] e.exc = "LoadAccessFault" -> <<5, pc_>>
      [] e.exc = "StoreAddressMisaligned" -> <<6, e.val>>
      [] e.exc = "StoreAccessFault" -> <<7, pc_>>
      [] e.exc = "UserEcall" -> <<8, Address(0)>>
      [] e.exc = "SupervisorEcall" -> <<9, Address(0)>>
      [] e.exc = "MachineEcall" -> <<11, Address(0)>>
      [] e.exc = "InstructionPageFault" -> <<12, e.val>>
      [] e.exc = "LoadPageFault" -> <<13, e.val>>
      [] e.exc = "StorePageFault" -> <<15, e.val>>
      [] e.exc = "Interrupt" ->
            <<CASE e.int = "UserSoftwareInterrupt" -> 0
                [] e.int = "SupervisorSoftwareInterrupt" -> 1
                [] e.int = "MachineSoftwareInterrupt" -> 3
                [] e.int = "UserTimerInterrupt" -> 4
                [] e.int = "SupervisorTimerInterrupt" -> 5
                [] e.int = "MachineTimerInterrupt" -> 7
                [] e.int = "UserExternalInterrupt" -> 8
                [] e.int = "SupervisorExternalInterrupt" -> 9
                [] e.int = "MachineExternalInterrupt" -> 11,
              Address(0)>>

\* C13: the cause and tval that trap delivery records are those of the
\* taxonomy, and the high bit of the stored cause is 1 exactly for interrupts.
C13_Taxonomy ==
    ev.kind = "take_trap" =>
        LET x == TrapCsrs(mode)
            t == Taxonomy(ev.e, ev.pc0)
        IN  /\ csrs[x[2]] = Address(t[1])
                            \cup (IF ev.e.exc = "Interrupt" THEN {XLEN - 1} ELSE {})
            /\ csrs[x[3]] = t[2]

\* A load access fault taken at pc 4 was recorded as (5, 4).
C13_Witness ==
    /\ ev.kind = "take_trap"
    /\ ev.e = Fault("LoadAccessFault")
    /\ ev.pc0 = Address(4)
    /\ mode = "M"
    /\ csrs[MCAUSE] = Address(5)
    /\ csrs[MTVAL] = Address(4)

-----------------------------------------------------------------------------
(* SpecSel: Cpu::check_pending_interrupt on its own, called on a hart in    *)
(* any mode with the enable bits of mstatus and the bits of mie and mip     *)
(* drawn from small sets.                                                   *)

\* The bits of mie and mip that the selector looks for.
IntBits == {1, 3, 5, 7, 9, 11}

InitSel ==
    /\ registers = new_registers
    /\ pc = Address(0)
    /\ mode \in PrivilegeMode
    /\ \E status \in SUBSET {1, 3}, mie \in {not(Address(0)), {3, 7}, {1, 5}},
          mip \in SUBSET IntBits :
          csrs = [new_csrs EXCEPT ![MSTATUS] = status, ![MIE] = mie, ![MIP] = mip]
    /\ mem = [c \in Cells |-> Address(0)]
    /\ panicked = FALSE
    /\ steps = 0
    /\ ev = [kind |-> "new"]

CheckPendingInterrupt ==
    /\ ev.kind = "new"
    /\ ev' = [kind |-> "selected", out |-> check_pending_interrupt(hart)]
    /\ UNCHANGED <<registers, pc, mode, csrs, mem, panicked, steps>>

NextSel == CheckPendingInterrupt

SpecSel == InitSel /\ [][NextSel]_vars

\* Interrupts are globally enabled for the current mode.
GloballyEnabled ==
    CASE mode = "M" -> 3 \in csrs[MSTATUS]
      [] mode = "S" -> 1 \in csrs[MSTATUS]
      [] mode = "U" -> TRUE

\* The bits of MIE & MIP that the selector looks for.
PendingBits == csrs[MIE] \cap csrs[MIP] \cap IntBits

\* The priority order, highest first, with the interrupt of each bit.
Priority ==
    << <<11, "MachineExternalInterrupt">>, <<3, "MachineSoftwareInterrupt">>,
       <<7, "MachineTimerInterrupt">>, <<9, "SupervisorExternalInterrupt">>,
       <<1, "SupervisorSoftwareInterrupt">>, <<5, "SupervisorTimerInterrupt">> >>

\* C14: with interrupts globally enabled and some of bits 11, 3, 7, 9, 1, 5
\* set in MIE & MIP, the selector returns the interrupt of the set bit that
\* comes first in the order MEI, MSI, MTI, SEI, SSI, STI.
C14_Priority ==
    (ev.kind = "selected" /\ GloballyEnabled /\ PendingBits # {}) =>
        \E k \in 1 .. 6 :
            /\ Priority[k][1] \in PendingBits
            /\ \A j \in 1 .. k - 1 : Priority[j][1] \notin PendingBits
            /\ ev.out = Interrupt(Priority[k][2])

\* C15: the selector returns an interrupt iff interrupts are globally
\* enabled for the mode and one of bits 11, 3, 7, 9, 1, 5 of MIE & MIP is
\* set, the interrupt is that of a set bit, and bit 5 alone gives
\* SupervisorTimerInterrupt.
C15_Gating ==
    ev.kind = "selected" =>
        /\ (ev.out # None) <=> (GloballyEnabled /\ PendingBits # {})
        /\ ev.out # None => int_cause(ev.out.int) \in PendingBits
        /\ (GloballyEnabled /\ PendingBits = {5}) =>
               ev.out = Interrupt("SupervisorTimerInterrupt")

-----------------------------------------------------------------------------
(* SpecZicsr: one CSR instruction, SRET or SFENCE.VMA executed by the Zicsr  *)
(* Instruction::exec on a hart in any mode, with x1, x2, mepc and mstatus   *)
(* drawn from small sets.                                                   *)

CsrOps == {"CSRRW", "CSRRS", "CSRRC", "CSRRWI", "CSRRSI", "CSRRCI"}

\* The instructions: rs is the zimm of the immediate forms.
CsrInstructions ==
    {[op |-> op, ty |-> [val |-> Address(csr), rd |-> rd, rs |-> rs]] :
        op \in CsrOps, csr \in {MEPC, SEPC, SSTATUS, MHARTID},
        rd \in 0 .. 2, rs \in 0 .. 2}

\* SRET and SFENCE.VMA.
XretInstructions ==
    {[op |-> "SRET", ty |-> [rd |-> 0, rs1 |-> 0, rs2 |-> 2]],
     [op |-> "SFENCE_VMA", ty |-> [rd |-> 0, rs1 |-> 0, rs2 |-> 0]]}

\* Values of mstatus: SIE (1), SPIE (5), SPP (8), TVM (20), TSR (22) and the
\* M-mode fields MIE (3) and MPP (11, 12).
StatusVals ==
    {Address(0), {1, 20}, {22}, {5, 8}, {1, 8, 22}, {3, 5, 11, 12}, {1, 3, 8, 11}}

InitZicsr ==
    /\ \E x1 \in {Address(0), {0, 4}} :
          registers = [new_registers EXCEPT ![0] = x1, ![1] = {1, 3}]
    /\ pc = Address(0)
    /\ mode \in PrivilegeMode
    /\ \E mepc \in {Address(8), {4, 5, 6, 7}}, status \in StatusVals :
          csrs = [new_csrs EXCEPT ![MEPC] = mepc, ![SEPC] = {2, 4},
                                  ![MSTATUS] = status]
    /\ mem = [c \in Cells |-> Address(0)]
    /\ panicked = FALSE
    /\ steps = 0
    /\ ev = [kind |-> "new"]

Exec(i) ==
    /\ ev.kind = "new"
    /\ LET returned(r) ==
               /\ SetHart(r.h)
               /\ ev' = [kind |-> IF i.op \in CsrOps THEN "csr" ELSE "exec",
                         inst |-> i, res |-> r.res, cont |-> r.cont,
                         regs0 |-> registers, csrs0 |-> csrs,
                         mode0 |-> mode, pc0 |-> pc]
       IN  returned(zicsr_exec(i, hart))
    /\ UNCHANGED <<panicked, steps>>

NextZicsr == \E i \in CsrInstructions \cup XretInstructions : Exec(i)

SpecZicsr == InitZicsr /\ [][NextZicsr]_vars

\* x[r] before the instruction, x0 being zero.
X0(r) == IF r = 0 THEN Address(0) ELSE read_register(ev.regs0, r)

\* The source operand of the instruction of ev: x[rs], or zimm.
SrcOperand ==
    IF ev.inst.op \in {"CSRRW", "CSRRS", "CSRRC"} THEN X0(ev.inst.ty.rs)
                                                   ELSE Address(ev.inst.ty.rs)

\* The CSR number of the instruction of ev and its value before it.
CsrNumber == u64_from(ev.inst.ty.val)

OldCsr == force_read_csr(ev.csrs0, CsrNumber)

\* C18: CSRRW writes x[rs] to the CSR on every execution, also when rs is
\* x0, and CSRRWI writes zimm on every execution, also when zimm is 0.
C18_AlwaysWrite ==
    (ev.kind = "csr" /\ ev.inst.op \in {"CSRRW", "CSRRWI"} /\ ev.res = Ok) =>
        csrs = force_write_csr(ev.csrs0, CsrNumber, SrcOperand)

\* C19: CSRRS/CSRRC with rs = x0 and CSRRSI/CSRRCI with zimm = 0, on a CSR
\* that is readable in the mode, succeed without a CSR write: the CSRs are
\* unchanged and x[rd] holds the CSR value, also on a read-only CSR.
C19_NoWrite ==
    (/\ ev.kind = "csr"
     /\ ev.inst.op \in {"CSRRS", "CSRRC", "CSRRSI", "CSRRCI"}
     /\ ev.inst.ty.rs = 0
     /\ read_csr(ev.csrs0, CsrNumber, mode).res = Ok) =>
        /\ ev.res = Ok
        /\ csrs = ev.csrs0
        /\ ev.inst.ty.rd # 0 => read_register(registers, ev.inst.ty.rd) = OldCsr

\* C20: when a CSR instruction completes, x[rd] holds the CSR value from
\* before it, every other register is as before, and the CSRs are as before
\* or hold the value computed from the old CSR value and the old x[rs]; when
\* it is refused, no register and no CSR is modified.
C20_Atomic ==
    ev.kind = "csr" =>
        IF ev.res = Ok
        THEN /\ \A r \in 1 .. 31 :
                    read_register(registers, r) =
                        IF r = ev.inst.ty.rd THEN OldCsr ELSE read_register(ev.regs0, r)
             /\ \/ csrs = ev.csrs0
                \/ csrs = force_write_csr(ev.csrs0, CsrNumber,
                              CASE ev.inst.op \in {"CSRRW", "CSRRWI"} -> SrcOperand
                                [] ev.inst.op \in {"CSRRS", "CSRRSI"} ->
                                       SrcOperand \cup OldCsr
                                [] ev.inst.op \in {"CSRRC", "CSRRCI"} ->
                                       OldCsr \ SrcOperand)
        ELSE registers = ev.regs0 /\ csrs = ev.csrs0

\* csrrs x1, mepc, x1 completed: x1 holds the old mepc and mepc the old mepc
\* with the bits of the old x1 set.
C20_Witness ==
    /\ ev.kind = "csr"
    /\ ev.inst = [op |-> "CSRRS", ty |-> [val |-> Address(MEPC), rd |-> 1, rs |-> 1]]
    /\ ev.res = Ok
    /\ ev.regs0[0] = {0, 4}
    /\ ev.csrs0[MEPC] = Address(8)
    /\ read_register(registers, 1) = Address(8)
    /\ csrs[MEPC] = {0, 3, 4}

C22_Sret ==
    (ev.kind = "exec" /\ ev.inst.op = "SRET" /\ ev.res = Ok) =>
        LET old == ev.csrs0[MSTATUS]
        IN  /\ pc = ev.csrs0[SEPC]
            /\ mode = IF 8 \in old THEN "S" ELSE "U"
            /\ csrs[MSTATUS] = (old \ {1, 8}) \cup {5}
                               \cup (IF 5 \in old THEN {1} ELSE {})
            /\ \A n \in CsrIndex \ {MSTATUS} : csrs[n] = ev.csrs0[n]
            /\ ev.cont = "Jump"
            /\ registers = ev.regs0

\* An SRET with SPP = 1, SPIE = 1 and SIE = 0 succeeded: the hart is in
\* S-mode at sepc with SIE = 1, SPIE = 1 and SPP = 0.
C22_Witness ==
    /\ ev.kind = "exec"
    /\ ev.inst.op = "SRET"
    /\ ev.res = Ok
    /\ ev.csrs0[MSTATUS] = {5, 8}
    /\ csrs[MSTATUS] = {1, 5}
    /\ mode = "S"
    /\ pc = {2, 4}

-----------------------------------------------------------------------------
(* The device bus under any sequence of reads and writes.                   *)

\* The widths of T: u8, u16, u32.
Widths == {1, 2, 4}

\* The addresses accessed, below, inside and above the devices.
BusAddrs == {Address(n) : n \in {3, 4, 5, 6, 8}}

\* The items written, truncated to the width of T: 0 and 0x1234.
BusItems == {{}, {2, 4, 5, 9, 12}}

\* One RAM of 4 bytes at 4, or a RAM of 2 bytes at 4 followed by another.
BusLayouts == {<<RamDevice(4, 4)>>, <<RamDevice(6, 2), RamDevice(4, 2)>>}

InitBus ==
    /\ mem \in [devices : BusLayouts, target_endian : {"little", "big"}]
    /\ csrs = new_csrs
    /\ registers = new_registers
    /\ pc = {}
    /\ mode = "M"
    /\ panicked = FALSE
    /\ steps = 0
    /\ ev = [kind |-> "new", last |-> [a \in 0 .. 11 |-> {}]]

\* DeviceBus::write::<T>(addr, item); ev.last keeps, for every address, the
\* byte that the last successful write stored there, least significant first.
BusWrite(addr, len, item) ==
    LET w == bus_write(mem, addr, len, item)
        n == u64_from(addr)
    IN  /\ mem' = w.bus
        /\ ev' = [kind |-> "write", addr |-> addr, len |-> len, item |-> item,
                  res |-> w.res,
                  last |-> IF w.res # Ok THEN ev.last
                           ELSE [a \in 0 .. 11 |->
                                    IF a \in n .. n + len - 1
                                    THEN {i - 8 * (a - n)
                                          : i \in item \cap (8 * (a - n) .. 8 * (a - n) + 7)}
                                    ELSE ev.last[a]]]
        /\ UNCHANGED <<registers, pc, mode, csrs, panicked, steps>>

\* DeviceBus::read::<T>(addr)
BusRead(addr, len) ==
    LET r == bus_read(mem, addr, len)
    IN  /\ ev' = [kind |-> "read", addr |-> addr, len |-> len, res |-> r.res,
                  out |-> r.out, last |-> ev.last]
        /\ UNCHANGED <<registers, pc, mode, csrs, mem, panicked, steps>>

NextBus ==
    \/ \E addr \in BusAddrs, len \in Widths, item \in BusItems :
          BusWrite(addr, len, item \cap (0 .. 8 * len - 1))
    \/ \E addr \in BusAddrs, len \in Widths : BusRead(addr, len)

SpecBus == InitBus /\ [][NextBus]_vars

\* The bytes of every device outside [n, n + len) are the same in a and b.
SameOutside(a, b, n, len) ==
    /\ DOMAIN a = DOMAIN b
    /\ \A k \in DOMAIN a :
          /\ a[k].base = b[k].base
          /\ Len(a[k].ram) = Len(b[k].ram)
          /\ \A j \in 1 .. Len(a[k].ram) :
                a[k].base + j - 1 \notin n .. n + len - 1 => a[k].ram[j] = b[k].ram[j]

\* C25: a successful read<T>(addr) returns the value that the last successful
\* writes stored in its bytes, so the v of the last write<T>(addr, v), and 0
\* where a fresh RAM was never written; a successful write<T>(addr, v) is
\* read back as v and changes only the sizeof(T) bytes from addr.
C25_ReadAfterWrite ==
    /\ [](/\ ev.kind = "new" =>
               \A addr \in BusAddrs, len \in Widths :
                   bus_read(mem, addr, len).res = Ok => bus_read(mem, addr, len).out = {}
          /\ (ev.kind = "read" /\ ev.res = Ok) =>
               ev.out = UNION {{i + 8 * k : i \in ev.last[u64_from(ev.addr) + k]}
                               : k \in 0 .. ev.len - 1})
    /\ [][(ev'.kind = "write" /\ ev'.res = Ok) =>
              /\ bus_read(mem', ev'.addr, ev'.len) = [res |-> Ok, out |-> ev'.item]
              /\ mem'.target_endian = mem.target_endian
              /\ SameOutside(mem.devices, mem'.devices, u64_from(ev'.addr), ev'.len)]_vars

\* A u16 read returned the 0x1234 stored by an earlier write.
C25_Witness ==
    /\ ev.kind = "read"
    /\ ev.len = 2
    /\ ev.res = Ok
    /\ ev.out = {2, 4, 5, 9, 12}

\* The outcome of an access of len bytes at addr, as the order of the checks
\* gives it: alignment, then the device, then the end of the device.
Classified(devices, addr, len, misaligned, fault) ==
    LET n == u64_from(addr)
        within == {k \in DOMAIN devices :
                      n \in devices[k].base .. devices[k].base + Len(devices[k].ram) - 1}
    IN  IF n % len # 0 THEN Exc(misaligned, addr)
        ELSE IF within = {} THEN Fault(fault)
        ELSE IF \E k \in within : n + len > devices[k].base + Len(devices[k].ram)
             THEN Fault(fault)
        ELSE Ok

\* C26: an access fails with LoadAddressMisaligned(addr) or
\* StoreAddressMisaligned(addr) when addr is not a multiple of align_of(T),
\* whether or not a device maps addr; otherwise with LoadAccessFault or
\* StoreAccessFault when no device contains addr or the access runs past the
\* end of the device; otherwise it succeeds.  A failed write changes nothing.
C26_Classification ==
    [][/\ ev'.kind = "read" =>
            ev'.res = Classified(mem.devices, ev'.addr, ev'.len,
                                 "LoadAddressMisaligned", "LoadAccessFault")
       /\ ev'.kind = "write" =>
            /\ ev'.res = Classified(mem.devices, ev'.addr, ev'.len,
                                    "StoreAddressMisaligned", "StoreAccessFault")
            /\ ev'.res # Ok => mem' = mem]_vars

\* A misaligned u32 read below every device, after a successful write.
C26_Witness ==
    /\ ev.kind = "read"
    /\ ev.len = 4
    /\ ev.addr = Address(3)
    /\ ev.res = Exc("LoadAddressMisaligned", Address(3))
    /\ \E k \in DOMAIN mem.devices : \E j \in DOMAIN mem.devices[k].ram :
          mem.devices[k].ram[j] # {}

-----------------------------------------------------------------------------
(* Emulator::run with a tohost symbol, src/src/emulator.rs.                 *)

\* The address of the tohost symbol: the last word of the RAM.
tohost_addr == Address(12)

\* Words of the programs that jump, branch, break and write tohost; x2 is
\* never written and holds 0.
RunWords ==
    {encode(i) : i \in
       {[op |-> "JAL", ty |-> [val |-> Address(4), rd |-> 1]],
        [op |-> "JAL", ty |-> [val |-> Address(6), rd |-> 1]],
        [op |-> "JALR", ty |-> [val |-> Address(5), rd |-> 1, rs |-> 2]],
        [op |-> "JALR", ty |-> [val |-> Address(7), rd |-> 1, rs |-> 2]],
        [op |-> "BEQ", ty |-> [val |-> Address(6), rs1 |-> 2, rs2 |-> 2]],
        [op |-> "BNE", ty |-> [val |-> Address(6), rs1 |-> 2, rs2 |-> 2]],
        [op |-> "SW", ty |-> [val |-> Address(12), rs1 |-> 2, rs2 |-> 1]],
        [op |-> "EBREAK", ty |-> [val |-> Address(1), rd |-> 0, rs |-> 0]]}}

\* from_object_with_htif: the image, with whatever the tohost word holds.
InitRun ==
    /\ registers = new_registers
    /\ pc = Address(0)
    /\ mode = "M"
    /\ csrs = new_csrs
    /\ mem \in {m \in [Cells -> RunWords \cup {Address(0), Address(1)}] :
                  /\ \A c \in Cells \ {12} : m[c] \in RunWords
                  /\ m[12] \in {Address(0), Address(1)}}
    /\ panicked = FALSE
    /\ steps = 0
    /\ ev = [kind |-> "new"]

\* A variant of the first statement of run that leaves tohost alone.
RunZero_mut ==
    /\ ev.kind = "new"
    /\ ev' = [kind |-> "zeroed"]
    /\ UNCHANGED <<registers, pc, mode, csrs, mem, panicked, steps>>

\* `let _ = self.cpu.write::<u32>(addr, 0u32)`
RunZero ==
    /\ ev.kind = "new"
    /\ mem' = mem_write(mem, tohost_addr, 4, Address(0)).mem
    /\ ev' = [kind |-> "zeroed"]
    /\ UNCHANGED <<registers, pc, mode, csrs, panicked, steps>>

\* The test at the top of the loop: tohost was read and is not zero.
tohost_set(m) ==
    LET read(r) == r.res = Ok /\ r.out # Address(0)
    IN  read(mem_read(m, tohost_addr, 4))

\* The loop body when the test fails: `match self.cpu.step()`.
RunStep ==
    /\ ev.kind \notin {"new", "returned"}
    /\ ~tohost_set(mem)
    /\ Step

\* `return`
RunReturn ==
    /\ ~panicked
    /\ ev.kind \in {"zeroed", "step", "take_trap"}
    /\ ev.kind = "step" => ev.res = Ok
    /\ tohost_set(mem)
    /\ ev' = [kind |-> "returned"]
    /\ UNCHANGED <<registers, pc, mode, csrs, mem, panicked, steps>>

NextRun == RunZero \/ RunStep \/ Deliver \/ RunReturn

SpecRun == InitRun /\ [][NextRun]_vars

C28_Ebreak ==
    [][(ev'.kind = "step" /\ ev'.at.fetched /\ decode(ev'.at.inst) # None
        /\ decode(ev'.at.inst).op = "EBREAK")
       => /\ ev'.res = Fault("Breakpoint")
          /\ ~panicked'
          /\ trap_value(ev'.res, pc) = pc]_vars

-----------------------------------------------------------------------------
(* Mmu::translate over page tables in the RAM of the hart.                  *)

\* PTEs with V = 1 and PPN = 1, for every choice of R, W, X, U, A and D.
LeafPtes == {{BIT_V, 10} \cup f : f \in SUBSET {BIT_R, BIT_W, BIT_X, BIT_U, BIT_A, BIT_D}}

\* The PTE that points to the table at 0.
BranchPte == {BIT_V}

\* The RAM: a PTE for 0 .. 4 MiB in word 0, or a Branch there and the PTE of
\* the page at 0x1000 in word 4.
PageTables ==
    {[c \in Cells |-> IF c = 0 THEN p ELSE Address(0)] : p \in LeafPtes \cup {Address(0)}}
    \cup {[c \in Cells |-> CASE c = 0 -> BranchPte [] c = 4 -> p [] OTHER -> Address(0)]
          : p \in LeafPtes \cup {Address(0)}}

\* mstatus: nothing, MPRV with MPP = U, S, M and 0b10, SUM, MXR.
MmuStatus == {{}, {17}, {11, 17}, {11, 12, 17}, {12, 17}, {18}, {19}}

\* The virtual addresses translated: 0x1c34, and 0x1000000 whose PTE would
\* lie behind the RAM.
MmuAddrs == {{2, 4, 5, 10, 11, 12}, {24}}

InitMmu ==
    /\ registers = new_registers
    /\ pc = Address(0)
    /\ mode \in PrivilegeMode
    /\ \E status \in MmuStatus, satp \in {{}, {31}} :
          csrs = [new_csrs EXCEPT ![MSTATUS] = status, ![SATP] = satp]
    /\ mem \in PageTables
    /\ panicked = FALSE
    /\ steps = 0
    /\ ev = [kind |-> "new"]

\* Mmu::translate(cpu, addr, access)
Translate(addr, access) ==
    /\ ~panicked
    /\ LET translated(t) ==
               /\ ev' = [kind |-> "translate", addr |-> addr, access |-> access,
                         res |-> t.res, out |-> t.out, reads |-> t.reads]
               /\ panicked' = (t.res = Panic)
       IN  translated(translate(hart, addr, access))
    /\ UNCHANGED <<registers, pc, mode, csrs, mem, steps>>

NextMmu == \E addr \in MmuAddrs, access \in {"Read", "Write", "Fetch"} : Translate(addr, access)

SpecMmu == InitMmu /\ [][NextMmu]_vars

\* C30: for a leaf PTE that passes the R/W/X and U checks, the translation
\* raises the page fault of the access type iff A = 0, or the access is a
\* write and D = 0; a read or fetch of a page with A = 1 and D = 0 succeeds.
C30_AccessedDirty ==
    (/\ ev.kind = "translate"
     /\ ev.addr = {2, 4, 5, 10, 11, 12}
     /\ mode \in {"S", "U"}
     /\ csrs[SATP] = {31}
     /\ csrs[MSTATUS] = {}
     /\ mem[0] \in LeafPtes
     /\ BIT_R \in mem[0] \/ BIT_X \in mem[0]
     /\ \/ ev.access = "Read" /\ BIT_R \in mem[0]
        \/ ev.access = "Write" /\ BIT_W \in mem[0] /\ BIT_R \in mem[0]
        \/ ev.access = "Fetch" /\ BIT_X \in mem[0] /\ (BIT_W \in mem[0] => BIT_R \in mem[0])
     /\ (BIT_U \in mem[0]) = (mode = "U"))
    => LET fault == Exc(CASE ev.access = "Read" -> "LoadPageFault"
                          [] ev.access = "Write" -> "StorePageFault"
                          [] ev.access = "Fetch" -> "InstructionPageFault", ev.addr)
       IN  IF BIT_A \notin mem[0] \/ (ev.access = "Write" /\ BIT_D \notin mem[0])
           THEN ev.res = fault
           ELSE ev.res = Ok

\* The page fault of the access of ev with the translated address as tval.
PageFault ==
    Exc(CASE ev.access = "Read" -> "LoadPageFault"
          [] ev.access = "Write" -> "StorePageFault"
          [] ev.access = "Fetch" -> "InstructionPageFault", ev.addr)

\* C31: a successful translation that ends at a leaf on level l gives
\* (PTE.PPN << 12) + (vaddr mod 2^(12 + 10 * l)); for l = 0 all 12 low bits
\* of the virtual address are in the physical address.
C31_PhysicalAddress ==
    (/\ ev.kind = "translate"
     /\ ev.res = Ok
     /\ ev.reads > 0)
    => LET pte == IF ev.reads = 1 THEN mem[4 * u64_from(vpn(ev.addr, 1))]
                  ELSE mem[4 * u64_from(vpn(ev.addr, 0))]
           bits == IF ev.reads = 1 THEN 22 ELSE 12
       IN  ev.out = AddCarry64({i + 2 : i \in pte \cap (10 .. 31)},
                               ev.addr \cap (0 .. bits - 1), 0, 0)

\* The privilege of an access: mstatus.MPP for a Read or Write when MPRV is
\* set, the current mode otherwise.
Effective ==
    IF ev.access # "Fetch" /\ 17 \in csrs[MSTATUS]
    THEN (IF 12 \in csrs[MSTATUS] THEN 2 ELSE 0) + (IF 11 \in csrs[MSTATUS] THEN 1 ELSE 0)
    ELSE CASE mode = "U" -> 0 [] mode = "S" -> 1 [] mode = "M" -> 3

\* C32: translate returns its input address without reading a PTE iff the
\* effective privilege is M or satp bit 31 is 0.
C32_Bare ==
    ev.kind = "translate"
    => ((ev.res = Ok /\ ev.out = ev.addr /\ ev.reads = 0)
        <=> (Effective = 3 \/ 31 \notin csrs[SATP]))

\* C33: a translation reads at most two PTEs and ends with a physical address
\* or with the page fault of its access type and tval = the virtual address,
\* also when a PTE lies at an address that no device backs.
C33_PageFaultOnly ==
    ev.kind = "translate"
    => /\ ev.reads <= 2
       /\ ev.res \in {Ok, PageFault}

-----------------------------------------------------------------------------
(* Address::set_bits and get_bits on a 32-bit Address, src/src/address.rs.  *)
(* The Address is kept in pc.                                               *)

\* The regular ranges [start, end) of the calls.
BitRanges == {<<11, 13>>, <<0, 1>>, <<31, 32>>, <<0, 32>>}

\* The u64 values stored: 0 .. 4 and 2^32.
BitVals == {{}, {0}, {1}, {0, 1}, {2}, {32}}

InitBits ==
    /\ registers = new_registers
    /\ pc \in {Address(0), not(Address(0)), {3, 11, 12}}
    /\ mode = "M"
    /\ csrs = new_csrs
    /\ mem = <<>>
    /\ panicked = FALSE
    /\ steps = 0
    /\ ev = [kind |-> "new"]

\* self.set_bits(start .. end, val): the assertion, then the assignment.
SetBits(range, val) ==
    /\ ~panicked
    /\ panicked' = ~set_bits_fits(range[1], range[2], val)
    /\ pc' = IF set_bits_fits(range[1], range[2], val)
             THEN set_bits(pc, range[1], range[2], val)
             ELSE pc
    /\ ev' = [kind |-> "set_bits", range |-> range, val |-> val]
    /\ UNCHANGED <<registers, mode, csrs, mem, steps>>

NextBits == \E range \in BitRanges, val \in BitVals : SetBits(range, val)

SpecBits == InitBits /\ [][NextBits]_vars

\* C34: set_bits(range, v) panics iff v does not fit in the width of the
\* range; when it does not panic, get_bits(range) returns v afterwards and
\* the bits outside the range are unchanged.
C34_SetBits ==
    [][ev'.kind = "set_bits" =>
         LET start == ev'.range[1]
             end == ev'.range[2]
         IN  /\ panicked' <=> ev'.val \cap (end - start .. 63) # {}
             /\ ~panicked' =>
                  /\ get_bits(pc', start, end) = ev'.val
                  /\ pc' \ (start .. end - 1) = pc \ (start .. end - 1)]_vars

====
